---------------------------- MODULE Spec2Model ----------------------------
(***************************************************************************)
(* PassPrive backend: the request pipeline of the restaurants, stores and  *)
(* corporates routers (validation, access guards, data-store calls).       *)
(* A request is a process: every `await` of a handler is one step, and the *)
(* tables of the external store are the shared state.                      *)
(*                                                                         *)
(* A store call fails or succeeds by choice (\E ok), except               *)
(* sb.auth.getUser(), which fails exactly for a token naming no identity.  *)
(* Rows keep the columns the handlers branch on; the city, area, search    *)
(* and sort-column filters of the list handlers, the include= parts of     *)
(* GET /stores/:id and the phone, department and designation of an         *)
(* employee are left out.  One clock reading serves a whole employee batch.*)
(***************************************************************************)
EXTENDS Integers, Sequences, FiniteSets, TLC

(* ------------------------------ bounds -------------------------------- *)
MaxRestaurants == 2
MaxCorporates == 1
MaxSeats == 2
MaxClock == 1
MaxLimitLen == 3
MaxOffsetLen == 2
MaxBulkLen == 2
MaxNewUsers == 2
MaxSpotlight == 3

(* ------------------------- program constants -------------------------- *)
DefaultLimit == 20
MaxLimit == 100
DefaultOffset == 0

(* ------------------------------ values -------------------------------- *)
NULL == "null"
\* Strings that are not RFC-4122 uuids (z.string().uuid() rejects them).
NonUuid == {"bad"}
\* Identities known to the auth subsystem (a valid session token names one).
Users == {"ua", "us", "up", "uq", "uu", "ue", "un"}
RestIdNames == <<"r1", "r2", "r3", "r4">>
RestIds == {RestIdNames[i] : i \in 1..MaxRestaurants}
StoreIds == {"t1", "t2"}
CorpIdNames == <<"c1", "c2", "c3">>
CorpIds == {CorpIdNames[i] : i \in 1..MaxCorporates}
\* A well-formed uuid that names no row of any table.
GhostId == "zz"
Slots == {1, 2}

VARIABLES
    router,        \* the router the requests of this behaviour are sent to
    users,         \* table public.users: id -> [row, role, email]
    restaurants,   \* table restaurants: id -> row, for the ids that have a row
    ridAlloc,      \* number of restaurant ids the store has generated
    stores,        \* table stores
    corporate,     \* table corporate
    cidAlloc,      \* number of corporate ids the store has generated
    spotlight,     \* table spotlight_items: id -> row, for the ids that have a row
    clock,         \* the server's wall clock (new Date())
    reqs           \* the requests in flight, one per slot

vars == <<router, users, restaurants, ridAlloc, stores, corporate, cidAlloc, spotlight, clock, reqs>>
tables == <<users, restaurants, ridAlloc, stores, corporate, cidAlloc, spotlight>>

(* ------------------------- requests, responses ------------------------ *)
Idle ==
    [route |-> "none", hdr |-> <<"", "">>, id |-> NULL, raw |-> <<>>, arg |-> <<>>,
     pc |-> "idle", status |-> 0, nresp |-> 0, caller |-> NULL,
     role |-> NULL, admitted |-> FALSE, lcl |-> <<>>, log |-> <<>>, err |-> ""]

\* raw is the query or body as received, arg the schema's parsed data.
NewRequest(route, hdr, id, raw) ==
    [Idle EXCEPT !.route = route, !.hdr = hdr, !.id = id, !.raw = raw, !.arg = raw]

\* res.status(st).json(...) followed by return.
Respond(r, st) ==
    [r EXCEPT !.status = st, !.pc = "done", !.nresp = @ + 1]

Logged(r, step) == [r EXCEPT !.log = Append(@, step)]

\* A store call of the request has returned { error }: its code is "PGRST116"
\* when .single() found no row, "23505" for a unique violation, else "failed".
StoreError(r, code) == [r EXCEPT !.err = code]

(* ------------------------------ helpers ------------------------------- *)
Headers ==
    {<<"", "">>, <<"Bearer", "">>, <<"Bearer", "expired">>}
        \cup {<<"Bearer", u>> : u \in Users}

getBearerToken(h) ==
    IF h[1] # "Bearer" \/ h[2] = "" THEN NULL ELSE h[2]

\* sb.auth.getUser(): the identity of a valid session token, else an error.
getUser(token) ==
    IF token \in Users THEN token ELSE NULL

isAdminRole(role) ==
    role = "admin" \/ role = "superadmin"

isPartnerRole(role) ==
    role = "restaurantpartner" \/ role = "storepartner"

\* A guard that decides on the role the caller had when the service started.
RoleAtStart(u) ==
    CASE u \in {"ua", "us"} -> "admin"
      [] u \in {"up", "uq"} -> "restaurantpartner"
      [] OTHER -> NULL

\* row?.role || null
RoleOrNull(u) ==
    IF users[u].row /\ users[u].role # "" THEN users[u].role ELSE NULL

\* String.prototype.trim on the strings the requests carry.
Trim(x) ==
    CASE x = " " -> ""
      [] x = " s2 " -> "s2"
      [] OTHER -> x

IdSchema(x) == x \notin NonUuid

(* ------------------------------ schemas ------------------------------- *)
\* z.object(...).safeParse(body): the parsed data, strings trimmed.
TrimFields(body) ==
    [f \in DOMAIN body |->
        IF f \in {"name", "slug"} THEN Trim(body[f]) ELSE body[f]]

UpdateRestaurantSchema(body) ==
    /\ "name" \in DOMAIN body => Trim(body.name) # ""
    /\ "slug" \in DOMAIN body => Trim(body.slug) # ""
    /\ "owner_user_id" \in DOMAIN body =>
          body.owner_user_id = NULL \/ body.owner_user_id \notin NonUuid

CreateRestaurantSchema(body) ==
    /\ "name" \in DOMAIN body /\ Trim(body.name) # ""
    /\ "slug" \in DOMAIN body /\ Trim(body.slug) # ""
    /\ "owner_user_id" \in DOMAIN body =>
          body.owner_user_id = NULL \/ body.owner_user_id \notin NonUuid

\* A delete schema that takes any value of hard for true.
DeleteQueryPresent(q) ==
    [hard |-> "hard" \in DOMAIN q]

\* hard: z.string().optional().transform((v) => v === "true")
DeleteQuerySchema(q) ==
    [hard |-> "hard" \in DOMAIN q /\ q.hard = "true"]

(* --------------------------- access guards ---------------------------- *)
\* The handler body a route enters once its guard has returned a context.
AfterGuard(r) ==
    LET route == r.route
    IN
    CASE route = "POST /restaurants" -> "insert"
      [] route = "PUT /restaurants/:id" -> "update"
      [] route = "DELETE /restaurants/:id" -> "exists"
      [] route = "GET /restaurants" -> "list"
      [] route = "GET /restaurants/:id" -> "get"
      [] route = "GET /stores" -> "list"
      [] route = "GET /stores/:id" -> "get"
      [] route = "DELETE /stores/:id" -> "texists"
      [] route = "POST /corporates" ->
            IF "plan" \notin DOMAIN r.arg /\ "subscription_id" \in DOMAIN r.arg
            THEN "plan" ELSE "owner"
      [] route = "POST /corporates/:id/employees" -> "load"
      [] route = "DELETE /corporates/:id/employees/:userId" -> "load"
      [] route = "POST /auth/login-or-register" -> "alookup"
      [] route = "POST /auth/create-user" -> "attempt"
      [] route = "POST /spotlight" -> "smax"
      [] route = "DELETE /spotlight/:id" -> "sdeactivate"
      [] OTHER -> "done"

GuardOf(route) ==
    CASE route \in {"PUT /restaurants/:id", "DELETE /restaurants/:id"} -> "write"
      [] route \in {"POST /restaurants", "POST /corporates",
                    "POST /corporates/:id/employees",
                    "DELETE /corporates/:id/employees/:userId"} -> "admin"
      [] OTHER -> "none"

\* A guard whose caller went on after the guard had answered.
GuardDenyFallThrough(r, st) == [Respond(r, st) EXCEPT !.pc = AfterGuard(r)]

\* The guard returned null after writing the status: `if (!access) return;`.
GuardDeny(r, st) == Respond(r, st)

\* The guard returned { sb, callerId, role }.
GuardAdmit(r) ==
    [r EXCEPT !.admitted = TRUE, !.pc = AfterGuard(r)]

\* requireAuth up to its await: supabaseAuthed(req) is null without a bearer token.
EnterGuard(r) ==
    IF getBearerToken(r.hdr) = NULL
    THEN GuardDeny(Logged(r, "token"), 401)
    ELSE [Logged(r, "token") EXCEPT !.pc = "auth"]

\* A validated request enters its guard, or its handler body when it has none.
Validated(r) ==
    IF GuardOf(r.route) = "none"
    THEN [Logged(r, "validate") EXCEPT !.pc = AfterGuard(r)]
    ELSE EnterGuard(Logged(r, "validate"))

\* A handler that asked for the bearer token before it parsed its input.
InvalidAfterToken(r) ==
    IF GuardOf(r.route) # "none" /\ getBearerToken(r.hdr) = NULL
    THEN Respond(Logged(r, "token"), 401)
    ELSE Respond(Logged(r, "validate"), 400)

\* safeParse failed: `return res.status(400).json(...)`.
Invalid(r) == Respond(Logged(r, "validate"), 400)

\* requireAuth after `await sb.auth.getUser()`.
RequireAuth(s) ==
    /\ reqs[s].pc = "auth"
    /\ LET r == Logged(reqs[s], "auth")
           u == getUser(getBearerToken(r.hdr))
       IN reqs' = [reqs EXCEPT ![s] =
              IF u = NULL THEN GuardDeny(r, 401)
              ELSE [r EXCEPT !.caller = u, !.pc = "role"]]
    /\ UNCHANGED <<router, tables, clock>>

\* An admin guard that admits every caller with a role.
requireAnyRole(r, role) ==
    IF role = NULL THEN GuardDeny(r, 403) ELSE GuardAdmit([r EXCEPT !.role = role])

\* requireAdmin after `await getCallerRole(...)`.
requireAdmin(r, role) ==
    IF role = NULL \/ ~isAdminRole(role)
    THEN GuardDeny(r, 403)
    ELSE GuardAdmit([r EXCEPT !.role = role])

\* A write guard that fetches the restaurant for every caller who is not an admin.
FetchForEveryRole(r, role) ==
    IF isAdminRole(role) THEN GuardAdmit([r EXCEPT !.role = role])
    ELSE [r EXCEPT !.role = role, !.pc = "fetch"]

\* requireRestaurantWriteAccess after `await getCallerRole(...)`.
requireRestaurantWriteAccess(r, role) ==
    IF isAdminRole(role) THEN GuardAdmit([r EXCEPT !.role = role])
    ELSE IF isPartnerRole(role) THEN [r EXCEPT !.role = role, !.pc = "fetch"]
    ELSE GuardDeny([r EXCEPT !.role = role], 403)

\* getCallerRole: users.select("id,role").eq("id", callerId).maybeSingle().
GetCallerRole(s) ==
    /\ reqs[s].pc = "role"
    /\ \E ok \in BOOLEAN :
         LET r == Logged(reqs[s], "role")
             role == RoleOrNull(r.caller)
         IN reqs' = [reqs EXCEPT ![s] =
                IF ~ok THEN GuardDeny(StoreError(r, "failed"), 500)
                ELSE IF GuardOf(r.route) = "admin" THEN requireAdmin(r, role)
                ELSE requireRestaurantWriteAccess(r, role)]
    /\ UNCHANGED <<router, tables, clock>>

\* A write guard that admits a partner without comparing the owner.
OwnerUnchecked(r, rest) == GuardAdmit(r)

\* The ownership comparison of requireRestaurantWriteAccess.
OwnerCheck(r, rest) ==
    IF rest.owner_user_id # r.caller THEN GuardDeny(r, 403) ELSE GuardAdmit(r)

\* A write guard that answers 403 for a restaurant that does not exist.
FetchResultForbidden(r, ok) ==
    IF ~ok THEN GuardDeny(StoreError(r, "failed"), 500)
    ELSE IF r.id \notin DOMAIN restaurants THEN GuardDeny(r, 403)
    ELSE OwnerCheck(r, restaurants[r.id])

\* requireRestaurantWriteAccess after the partner's restaurant lookup.
FetchResult(r, ok) ==
    IF ~ok THEN GuardDeny(StoreError(r, "failed"), 500)
    ELSE IF r.id \notin DOMAIN restaurants THEN GuardDeny(r, 404)
    ELSE OwnerCheck(r, restaurants[r.id])

\* requireRestaurantWriteAccess, partner branch:
\* restaurants.select("id,owner_user_id").eq("id", restaurantId).maybeSingle().
FetchRestaurant(s) ==
    /\ reqs[s].pc = "fetch"
    /\ \E ok \in BOOLEAN :
         LET r == Logged(reqs[s], "fetch")
         IN reqs' = [reqs EXCEPT ![s] = FetchResult(r, ok)]
    /\ UNCHANGED <<router, tables, clock>>


(* ------------------------- /api/restaurants --------------------------- *)
RestaurantIdParams == RestIds \cup {GhostId} \cup NonUuid

CreateBodies ==
    {[name |-> "A", slug |-> "s1"],
     [name |-> "A", slug |-> "s2"],
     [name |-> "A", slug |-> " s2 "],
     [name |-> "A", slug |-> "s2", is_active |-> FALSE],
     [name |-> "A", slug |-> "s2", owner_user_id |-> "uq"],
     [name |-> "A", slug |-> "s2", owner_user_id |-> "bad"],
     [name |-> " ", slug |-> "s2"],
     [slug |-> "s2"]}

UpdateBodies ==
    {[is_active |-> FALSE],
     [is_active |-> TRUE],
     [slug |-> "s1"],
     [slug |-> " s2 "],
     [owner_user_id |-> "uq"],
     [owner_user_id |-> NULL],
     [owner_user_id |-> "bad"],
     [slug |-> " "]}

DeleteQueries ==
    {<<>>, [hard |-> "true"], [hard |-> "false"], [hard |-> "1"]}

\* body.f ?? d
OrElse(body, f, d) == IF f \in DOMAIN body THEN body[f] ELSE d

\* The row POST /api/restaurants inserts.
NewRestaurant(body) ==
    [name |-> body.name,
     slug |-> body.slug,
     is_active |-> OrElse(body, "is_active", TRUE),
     booking_enabled |-> OrElse(body, "booking_enabled", TRUE),
     avg_duration_minutes |-> OrElse(body, "avg_duration_minutes", 90),
     owner_user_id |-> OrElse(body, "owner_user_id", NULL)]

\* .update(data): the columns named in data are overwritten, the others kept.
ApplyUpdate(row, data) ==
    [f \in DOMAIN row |-> IF f \in DOMAIN data THEN data[f] ELSE row[f]]

\* A table without the unique index on slug.
SlugFree(slug, except) == FALSE

\* The unique index on restaurants.slug (error code 23505).
SlugTaken(slug, except) ==
    \E i \in DOMAIN restaurants \ except : restaurants[i].slug = slug

\* A handler starts: the synchronous part up to its first await.
Begin(s, r, valid, data) ==
    /\ reqs[s].pc = "idle"
    /\ reqs' = [reqs EXCEPT ![s] =
          IF valid THEN Validated([r EXCEPT !.arg = data]) ELSE Invalid(r)]
    /\ UNCHANGED <<router, tables, clock>>

\* The handler has returned and its response is with the client.
Return(s) ==
    /\ reqs[s].pc = "done"
    /\ reqs' = [reqs EXCEPT ![s] = Idle]
    /\ UNCHANGED <<router, tables, clock>>

\* router.post("/"): CreateRestaurantSchema.safeParse, then requireAdmin.
PostRestaurant(s, H, B) ==
    /\ router = "restaurants"
    /\ ridAlloc < MaxRestaurants
    /\ \E hdr \in H, body \in B :
         Begin(s, NewRequest("POST /restaurants", hdr, NULL, body),
               CreateRestaurantSchema(body), TrimFields(body))

\* router.post("/"): restaurants.insert({...}).select().single().
InsertRestaurant(s) ==
    /\ reqs[s].pc = "insert"
    /\ \E ok \in BOOLEAN :
         LET r == Logged(reqs[s], "insert")
             id == RestIdNames[ridAlloc + 1]
         IN IF ~ok
            THEN /\ reqs' = [reqs EXCEPT ![s] = Respond(StoreError(r, "failed"), 500)]
                 /\ UNCHANGED <<restaurants, ridAlloc>>
            ELSE IF SlugTaken(r.arg.slug, {})
            THEN /\ reqs' = [reqs EXCEPT ![s] = Respond(StoreError(r, "23505"), 400)]
                 /\ UNCHANGED <<restaurants, ridAlloc>>
            ELSE /\ ridAlloc < MaxRestaurants
                 /\ restaurants' = (id :> NewRestaurant(r.arg)) @@ restaurants
                 /\ ridAlloc' = ridAlloc + 1
                 /\ reqs' = [reqs EXCEPT ![s] = Respond([r EXCEPT !.id = id], 201)]
    /\ UNCHANGED <<router, users, stores, corporate, cidAlloc, spotlight, clock>>

\* router.put("/:id"): IdSchema, UpdateRestaurantSchema, then the write guard.
PutRestaurant(s, H, I, B) ==
    /\ router = "restaurants"
    /\ \E hdr \in H, id \in I, body \in B :
         Begin(s, NewRequest("PUT /restaurants/:id", hdr, id, body),
               IdSchema(id) /\ UpdateRestaurantSchema(body), TrimFields(body))

\* router.put("/:id"): restaurants.update(data).eq("id", id).select().single().
UpdateRestaurant(s) ==
    /\ reqs[s].pc = "update"
    /\ \E ok \in BOOLEAN :
         LET r == Logged(reqs[s], "update")
         IN IF ~ok \/ r.id \notin DOMAIN restaurants
            THEN /\ reqs' = [reqs EXCEPT ![s] = Respond(StoreError(r, IF ok THEN "PGRST116" ELSE "failed"), 500)]
                 /\ UNCHANGED restaurants
            ELSE IF "slug" \in DOMAIN r.arg /\ SlugTaken(r.arg.slug, {r.id})
            THEN /\ reqs' = [reqs EXCEPT ![s] = Respond(StoreError(r, "23505"), 400)]
                 /\ UNCHANGED restaurants
            ELSE /\ restaurants' =
                      [restaurants EXCEPT ![r.id] = ApplyUpdate(@, r.arg)]
                 /\ reqs' = [reqs EXCEPT ![s] = Respond(r, 200)]
    /\ UNCHANGED <<router, users, ridAlloc, stores, corporate, cidAlloc, spotlight, clock>>

\* router.delete("/:id"): IdSchema, DeleteQuerySchema, then the write guard.
DeleteRestaurant(s, H, I, Q) ==
    /\ router = "restaurants"
    /\ \E hdr \in H, id \in I, q \in Q :
         Begin(s, NewRequest("DELETE /restaurants/:id", hdr, id, q),
               IdSchema(id), DeleteQuerySchema(q))

\* router.delete("/:id"): restaurants.select("id,is_active").eq("id", id).maybeSingle().
RestaurantExists(s) ==
    /\ reqs[s].pc = "exists"
    /\ \E ok \in BOOLEAN :
         LET r == Logged(reqs[s], "exists")
         IN reqs' = [reqs EXCEPT ![s] =
                IF ~ok THEN Respond(StoreError(r, "failed"), 500)
                ELSE IF r.id \notin DOMAIN restaurants THEN Respond(r, 404)
                ELSE [r EXCEPT !.pc = IF r.arg.hard THEN "remove" ELSE "deactivate"]]
    /\ UNCHANGED <<router, tables, clock>>

\* .delete().eq("id", id): the rows with that id, if any, are removed.
DeleteRow(table, id) ==
    [i \in DOMAIN table \ {id} |-> table[i]]

\* .update({ is_active: false }).eq("id", id): no row matched is no error.
SoftDeleteRow(table, id) ==
    [i \in DOMAIN table |->
        IF i = id THEN [table[i] EXCEPT !.is_active = FALSE] ELSE table[i]]

\* router.delete("/:id"), hard: restaurants.delete().eq("id", id).
RemoveRestaurant(s) ==
    /\ reqs[s].pc = "remove"
    /\ \E ok \in BOOLEAN :
         LET r == Logged(reqs[s], "remove")
         IN IF ~ok
            THEN /\ reqs' = [reqs EXCEPT ![s] = Respond(StoreError(r, "failed"), 500)]
                 /\ UNCHANGED restaurants
            ELSE /\ restaurants' = DeleteRow(restaurants, r.id)
                 /\ reqs' = [reqs EXCEPT ![s] = Respond(r, 200)]
    /\ UNCHANGED <<router, users, ridAlloc, stores, corporate, cidAlloc, spotlight, clock>>

\* router.delete("/:id"), soft: restaurants.update({ is_active: false }).eq("id", id).
DeactivateRestaurant(s) ==
    /\ reqs[s].pc = "deactivate"
    /\ \E ok \in BOOLEAN :
         LET r == Logged(reqs[s], "deactivate")
         IN IF ~ok
            THEN /\ reqs' = [reqs EXCEPT ![s] = Respond(StoreError(r, "failed"), 500)]
                 /\ UNCHANGED restaurants
            ELSE /\ restaurants' = SoftDeleteRow(restaurants, r.id)
                 /\ reqs' = [reqs EXCEPT ![s] = Respond(r, 200)]
    /\ UNCHANGED <<router, users, ridAlloc, stores, corporate, cidAlloc, spotlight, clock>>

(* ------------------------- list queries ------------------------------- *)
\* The characters query-string numbers are written with here.
Chars == {"0", "1", "-", "x"}
Digits == {"0", "1"}
StringsUpTo(n) == UNION {[1..k -> Chars] : k \in 0..n}
LimitStrings == StringsUpTo(MaxLimitLen) \cup {<<"Infinity">>, <<"-", "Infinity">>}
OffsetStrings == StringsUpTo(MaxOffsetLen) \cup {<<"Infinity">>}

DigitValue(c) == IF c = "1" THEN 1 ELSE 0

RECURSIVE Decimal(_)
Decimal(ds) ==
    IF ds = <<>> THEN 0
    ELSE 10 * Decimal(SubSeq(ds, 1, Len(ds) - 1)) + DigitValue(ds[Len(ds)])

AllDigits(ds) == ds # <<>> /\ \A i \in 1..Len(ds) : ds[i] \in Digits

RECURSIVE Hexadecimal(_)
Hexadecimal(ds) ==
    IF ds = <<>> THEN 0
    ELSE 16 * Hexadecimal(SubSeq(ds, 1, Len(ds) - 1)) + DigitValue(ds[Len(ds)])

\* A HexIntegerLiteral: "0x" and at least one hex digit.
IsHex(v) ==
    Len(v) > 2 /\ v[1] = "0" /\ v[2] = "x" /\ AllDigits(SubSeq(v, 3, Len(v)))

\* Number(v) of ECMAScript on these strings: [kind, val], kind "num", "inf" or "nan".
Number(v) ==
    CASE v = <<>> -> [kind |-> "num", val |-> 0]
      [] v = <<"Infinity">> -> [kind |-> "inf", val |-> 1]
      [] v = <<"-", "Infinity">> -> [kind |-> "inf", val |-> -1]
      [] AllDigits(v) -> [kind |-> "num", val |-> Decimal(v)]
      [] IsHex(v) -> [kind |-> "num", val |-> Hexadecimal(SubSeq(v, 3, Len(v)))]
      [] Len(v) > 1 /\ v[1] = "-" /\ AllDigits(Tail(v)) ->
            [kind |-> "num", val |-> 0 - Decimal(Tail(v))]
      [] OTHER -> [kind |-> "nan", val |-> 0]

\* Number.isFinite(n)
IsFinite(n) == n.kind = "num"

\* .transform((v) => (v ? Number(v) : d)): undefined and "" are falsy.
NumberOr(q, f, d) ==
    IF f \in DOMAIN q /\ q[f] # <<>> THEN Number(q[f]) ELSE [kind |-> "num", val |-> d]

\* A limit refinement that lets 0 through.
LimitOkFromZero(n) ==
    IsFinite(n) /\ n.val >= 0 /\ n.val <= MaxLimit

\* .refine((n) => Number.isFinite(n) && n > 0 && n <= 100, "limit 1-100")
LimitOk(n) ==
    /\ IsFinite(n)
    /\ IF n.kind = "inf" THEN FALSE ELSE n.val > 0 /\ n.val <= MaxLimit

\* .refine((n) => Number.isFinite(n) && n >= 0, "offset must be >= 0")
OffsetOk(n) ==
    /\ IsFinite(n)
    /\ IF n.kind = "inf" THEN n.val > 0 ELSE n.val >= 0

\* ListQuerySchema.safeParse(req.query) succeeds.
ListQuerySchema(q) ==
    /\ "status" \in DOMAIN q => q.status \in {"active", "inactive"}
    /\ "order" \in DOMAIN q => q.order \in {"asc", "desc"}
    /\ "sort" \in DOMAIN q => q.sort \in {"created_at"}
    /\ LimitOk(NumberOr(q, "limit", DefaultLimit))
    /\ OffsetOk(NumberOr(q, "offset", DefaultOffset))

\* parsed.data of ListQuerySchema.
ListQueryData(q) ==
    [status |-> OrElse(q, "status", NULL),
     includeInactive |-> "includeInactive" \in DOMAIN q /\ q.includeInactive = "true",
     limit |-> NumberOr(q, "limit", DefaultLimit).val,
     offset |-> NumberOr(q, "offset", DefaultOffset).val,
     sort |-> OrElse(q, "sort", "created_at"),
     order |-> OrElse(q, "order", "desc")]

\* List handlers without the default filter on is_active.
StatusFilterOnly(d, row) ==
    d.status # NULL => row.is_active = (d.status = "active")

\* The is_active filters of the list handlers.
ActiveFilter(d, row) ==
    /\ (~d.includeInactive /\ d.status = NULL) => row.is_active = TRUE
    /\ d.status # NULL => row.is_active = (d.status = "active")

Reverse(seq) == [i \in 1..Len(seq) |-> seq[Len(seq) + 1 - i]]

\* query.order("created_at", { ascending }): ids in creation order.
Ordered(table, names, d) ==
    LET asc == SelectSeq(names, LAMBDA i : i \in DOMAIN table /\ ActiveFilter(d, table[i]))
    IN IF d.order = "asc" THEN asc ELSE Reverse(asc)

\* range read that takes the row after position `to` as well.
RangeOneMore(seq, from, to) ==
    IF from + 1 > Len(seq) THEN <<>>
    ELSE SubSeq(seq, from + 1, IF to + 2 < Len(seq) THEN to + 2 ELSE Len(seq))

\* query.range(from, to) with from = offset and to = offset + limit - 1.
Range(seq, from, to) ==
    IF from + 1 > Len(seq) THEN <<>>
    ELSE SubSeq(seq, from + 1, IF to + 1 < Len(seq) THEN to + 1 ELSE Len(seq))

\* The body of a list response: { items, page: { limit, offset, total } }.
ListResponse(table, names, d) ==
    LET ids == Ordered(table, names, d)
        page == Range(ids, d.offset, d.offset + d.limit - 1)
    IN [items |-> [i \in 1..Len(page) |->
                      [id |-> page[i], is_active |-> table[page[i]].is_active]],
        limit |-> d.limit, offset |-> d.offset, total |-> Len(ids)]

ListQueries ==
    {<<>>, [includeInactive |-> "true"], [includeInactive |-> "false"],
     [status |-> "active"], [status |-> "inactive"], [status |-> "all"],
     [includeInactive |-> "true", status |-> "active"],
     [order |-> "asc"], [order |-> "up"],
     [limit |-> <<"1">>], [offset |-> <<"1">>], [limit |-> <<"0">>],
     [includeInactive |-> "TRUE", limit |-> <<"1">>, offset |-> <<"1">>]}

\* Every limit string alone and with some offsets, every offset string alone and
\* with some limits (the schema refines the two fields independently).
PagingQueries ==
    {[limit |-> l] : l \in LimitStrings}
        \cup {[offset |-> o] : o \in OffsetStrings}
        \cup {[limit |-> l, offset |-> o] :
                  l \in LimitStrings, o \in {<<>>, <<"1">>, <<"-", "1">>}}
        \cup {[limit |-> l, offset |-> o] :
                  l \in {<<>>, <<"1", "0", "0">>, <<"0">>}, o \in OffsetStrings}

\* router.get("/") of restaurants.ts: ListQuerySchema.safeParse(req.query).
ListRestaurants(s, Q) ==
    /\ router = "restaurants"
    /\ \E q \in Q :
         Begin(s, NewRequest("GET /restaurants", <<"", "">>, NULL, q),
               ListQuerySchema(q), ListQueryData(q))

\* router.get("/") of restaurants.ts: `await query.range(from, to)`.
SelectRestaurants(s) ==
    /\ reqs[s].pc = "list" /\ reqs[s].route = "GET /restaurants"
    /\ \E ok \in BOOLEAN :
         LET r == Logged(reqs[s], "select")
         IN reqs' = [reqs EXCEPT ![s] =
                IF ~ok THEN Respond(StoreError(r, "failed"), 500)
                ELSE Respond([r EXCEPT !.lcl =
                        ListResponse(restaurants, RestIdNames, r.arg)], 200)]
    /\ UNCHANGED <<router, tables, clock>>

\* router.get("/:id") of restaurants.ts.
GetRestaurant(s, I) ==
    /\ router = "restaurants"
    /\ \E id \in I :
         Begin(s, NewRequest("GET /restaurants/:id", <<"", "">>, id, <<>>),
               IdSchema(id), <<>>)

\* router.get("/:id"): restaurants.select("*").eq("id", id).maybeSingle().
SelectRestaurant(s) ==
    /\ reqs[s].pc = "get" /\ reqs[s].route = "GET /restaurants/:id"
    /\ \E ok \in BOOLEAN :
         LET r == Logged(reqs[s], "select")
         IN reqs' = [reqs EXCEPT ![s] =
                IF ~ok THEN Respond(StoreError(r, "failed"), 500)
                ELSE IF r.id \notin DOMAIN restaurants THEN Respond(r, 404)
                ELSE Respond([r EXCEPT !.lcl = restaurants[r.id]], 200)]
    /\ UNCHANGED <<router, tables, clock>>

(* ---------------------------- /api/stores ----------------------------- *)
StoreIdNames == <<"t1", "t2">>
StoreIdParams == StoreIds \cup {GhostId} \cup NonUuid

\* router.get("/") of stores.ts.
ListStores(s, Q) ==
    /\ router = "stores"
    /\ \E q \in Q :
         Begin(s, NewRequest("GET /stores", <<"", "">>, NULL, q),
               ListQuerySchema(q), ListQueryData(q))

\* router.get("/") of stores.ts: `await query.range(from, to)`.
SelectStores(s) ==
    /\ reqs[s].pc = "list" /\ reqs[s].route = "GET /stores"
    /\ \E ok \in BOOLEAN :
         LET r == Logged(reqs[s], "select")
         IN reqs' = [reqs EXCEPT ![s] =
                IF ~ok THEN Respond(StoreError(r, "failed"), 500)
                ELSE Respond([r EXCEPT !.lcl =
                        ListResponse(stores, StoreIdNames, r.arg)], 200)]
    /\ UNCHANGED <<router, tables, clock>>

\* router.get("/:id") of stores.ts (without ?include=).
GetStore(s, I) ==
    /\ router = "stores"
    /\ \E id \in I :
         Begin(s, NewRequest("GET /stores/:id", <<"", "">>, id, <<>>),
               IdSchema(id), <<>>)

\* router.get("/:id"): stores.select("*").eq("id", id).maybeSingle().
SelectStore(s) ==
    /\ reqs[s].pc = "get" /\ reqs[s].route = "GET /stores/:id"
    /\ \E ok \in BOOLEAN :
         LET r == Logged(reqs[s], "select")
         IN reqs' = [reqs EXCEPT ![s] =
                IF ~ok THEN Respond(StoreError(r, "failed"), 500)
                ELSE IF r.id \notin DOMAIN stores THEN Respond(r, 404)
                ELSE Respond([r EXCEPT !.lcl = stores[r.id]], 200)]
    /\ UNCHANGED <<router, tables, clock>>

\* router.delete("/:id") of stores.ts: no guard, any caller.
DeleteStore(s, H, I, Q) ==
    /\ router = "stores"
    /\ \E hdr \in H, id \in I, q \in Q :
         Begin(s, NewRequest("DELETE /stores/:id", hdr, id, q),
               IdSchema(id), DeleteQuerySchema(q))

\* router.delete("/:id"): stores.select("id,is_active").eq("id", id).maybeSingle().
StoreExists(s) ==
    /\ reqs[s].pc = "texists"
    /\ \E ok \in BOOLEAN :
         LET r == Logged(reqs[s], "exists")
         IN reqs' = [reqs EXCEPT ![s] =
                IF ~ok THEN Respond(StoreError(r, "failed"), 500)
                ELSE IF r.id \notin DOMAIN stores THEN Respond(r, 404)
                ELSE [r EXCEPT !.pc = IF r.arg.hard THEN "tremove" ELSE "tdeactivate"]]
    /\ UNCHANGED <<router, tables, clock>>

\* router.delete("/:id"), hard: stores.delete().eq("id", id).
RemoveStore(s) ==
    /\ reqs[s].pc = "tremove"
    /\ \E ok \in BOOLEAN :
         LET r == Logged(reqs[s], "remove")
         IN IF ~ok
            THEN /\ reqs' = [reqs EXCEPT ![s] = Respond(StoreError(r, "failed"), 500)]
                 /\ UNCHANGED stores
            ELSE /\ stores' = DeleteRow(stores, r.id)
                 /\ reqs' = [reqs EXCEPT ![s] = Respond(r, 200)]
    /\ UNCHANGED <<router, users, restaurants, ridAlloc, corporate, cidAlloc, spotlight, clock>>

\* router.delete("/:id"), soft: stores.update({ is_active: false }).eq("id", id).
DeactivateStore(s) ==
    /\ reqs[s].pc = "tdeactivate"
    /\ \E ok \in BOOLEAN :
         LET r == Logged(reqs[s], "deactivate")
         IN IF ~ok
            THEN /\ reqs' = [reqs EXCEPT ![s] = Respond(StoreError(r, "failed"), 500)]
                 /\ UNCHANGED stores
            ELSE /\ stores' = SoftDeleteRow(stores, r.id)
                 /\ reqs' = [reqs EXCEPT ![s] = Respond(r, 200)]
    /\ UNCHANGED <<router, users, restaurants, ridAlloc, corporate, cidAlloc, spotlight, clock>>

(* --------------------------- /api/corporates -------------------------- *)
CorporateIdParams == CorpIds \cup {GhostId} \cup NonUuid
CorporateHeaders == {<<"", "">>, <<"Bearer", "ua">>, <<"Bearer", "up">>}

\* Table subscription, which no route writes.
Subscriptions == [sub1 |-> [plan_name |-> "gold"]]

\* Strings z.string().email() rejects.
NonEmail == {"nomail"}

\* String.prototype.toLowerCase on the e-mail addresses the requests carry.
ToLowerCase(e) ==
    CASE e = "UU@X" -> "uu@x"
      [] e = "UE@X" -> "ue@x"
      [] OTHER -> e

CreateCorporateBodies ==
    {[name |-> "N", owner_user_id |-> "uu", owner_email |-> "uu@x", seats |-> n] :
         n \in 0..MaxSeats}
    \cup
    {[name |-> "N", owner_user_id |-> "uu", owner_email |-> "UU@X"],
     [name |-> "N", owner_user_id |-> "uu", owner_email |-> "uu@x", plan |-> "silver"],
     [name |-> "N", owner_user_id |-> "uu", owner_email |-> "uu@x", subscription_id |-> "sub1"],
     [name |-> "N", owner_user_id |-> "uu", owner_email |-> "uu@x", subscription_id |-> GhostId],
     [name |-> "N", owner_user_id |-> "uu", owner_email |-> "ue@x"],
     [name |-> "N", owner_user_id |-> "un", owner_email |-> "un@x"],
     [name |-> "N", owner_user_id |-> "uu", owner_email |-> "uu@x", seats |-> -1],
     [name |-> "N", owner_user_id |-> "bad", owner_email |-> "uu@x"],
     [name |-> "N", owner_user_id |-> "uu", owner_email |-> "nomail"]}

CreateCorporateSchema(body) ==
    /\ "name" \in DOMAIN body /\ Trim(body.name) # ""
    /\ "seats" \in DOMAIN body => body.seats >= 0
    /\ "subscription_id" \in DOMAIN body => body.subscription_id \notin NonUuid
    /\ "owner_user_id" \in DOMAIN body /\ body.owner_user_id \notin NonUuid
    /\ "owner_email" \in DOMAIN body /\ body.owner_email \notin NonEmail

\* An instant is a clock reading; created_at -1 is an ISO date the client sent,
\* earlier than every reading of the server's clock.
EmployeeBatches ==
    {<<>>,
     <<[user_id |-> "uu", name |-> "n1", email |-> "uu@x"]>>,
     <<[user_id |-> "uu", name |-> "n2", email |-> "UU@X"]>>,
     <<[user_id |-> "ue", name |-> "n1", email |-> "ue@x"]>>,
     <<[user_id |-> "uu", name |-> "n1", email |-> "uu@x"],
       [user_id |-> "ue", name |-> "n1", email |-> "ue@x"]>>,
     <<[user_id |-> "ue", name |-> "n1", email |-> "ue@x"],
       [user_id |-> "uu", name |-> "n1", email |-> "uu@x"]>>,
     <<[user_id |-> "uu", name |-> "n1", email |-> "uu@x"],
       [user_id |-> "uu", name |-> "n2", email |-> "UU@X"]>>,
     <<[user_id |-> "uu", name |-> "n1", email |-> "uu@x"],
       [user_id |-> "ue", name |-> "n1", email |-> "uu@x"]>>,
     <<[user_id |-> "ue", name |-> "n1", email |-> "ue@x"],
       [user_id |-> "un", name |-> "n1", email |-> "un@x"]>>,
     <<[user_id |-> "uu", name |-> "n1", email |-> "uu@x", created_at |-> -1]>>,
     <<[user_id |-> "bad", name |-> "n1", email |-> "uu@x"]>>,
     <<[user_id |-> "uu", name |-> "n1", email |-> "nomail"]>>}

\* AddEmployeesSchema: employees is a non-empty array of EmployeeJsonSchema records.
AddEmployeesSchema(batch) ==
    /\ Len(batch) >= 1
    /\ \A i \in 1..Len(batch) :
          /\ batch[i].user_id \notin NonUuid
          /\ Trim(batch[i].name) # ""
          /\ batch[i].email \notin NonEmail

\* router.post("/"): CreateCorporateSchema.safeParse, then requireAdmin.
PostCorporate(s, H, B) ==
    /\ router = "corporates"
    /\ cidAlloc < MaxCorporates
    /\ \E hdr \in H, body \in B :
         Begin(s, NewRequest("POST /corporates", hdr, NULL, body),
               CreateCorporateSchema(body), body)

\* router.post("/"): subscription.select("id,plan_name").eq("id", ...).maybeSingle().
ResolvePlan(s) ==
    /\ reqs[s].pc = "plan"
    /\ \E ok \in BOOLEAN :
         LET r == Logged(reqs[s], "plan")
             sid == r.arg.subscription_id
         IN reqs' = [reqs EXCEPT ![s] =
                IF ~ok THEN Respond(StoreError(r, "failed"), 500)
                ELSE IF sid \notin DOMAIN Subscriptions THEN Respond(r, 400)
                ELSE [r EXCEPT !.lcl = [plan |-> Subscriptions[sid].plan_name],
                               !.pc = "owner"]]
    /\ UNCHANGED <<router, tables, clock>>

\* router.post("/"): users.select("id,email,role").eq("id", owner_user_id).maybeSingle().
ValidateOwner(s) ==
    /\ reqs[s].pc = "owner"
    /\ \E ok \in BOOLEAN :
         LET r == Logged(reqs[s], "owner")
             o == r.arg.owner_user_id
         IN reqs' = [reqs EXCEPT ![s] =
                IF ~ok THEN Respond(StoreError(r, "failed"), 500)
                ELSE IF o \notin Users \/ ~users[o].row THEN Respond(r, 400)
                ELSE IF ToLowerCase(users[o].email) # ToLowerCase(r.arg.owner_email)
                THEN Respond(r, 400)
                ELSE [r EXCEPT !.pc = "cinsert"]]
    /\ UNCHANGED <<router, tables, clock>>

\* The row POST /api/corporates inserts.
NewCorporate(r) ==
    [name |-> r.arg.name,
     owner_user_id |-> r.arg.owner_user_id,
     owner_email |-> r.arg.owner_email,
     plan |-> IF "plan" \in DOMAIN r.lcl THEN r.lcl.plan ELSE OrElse(r.arg, "plan", NULL),
     seats |-> OrElse(r.arg, "seats", 0),
     is_active |-> TRUE,
     employees |-> <<>>]

\* router.post("/"): corporate.insert({...}).select("*").single().
InsertCorporate(s) ==
    /\ reqs[s].pc = "cinsert"
    /\ \E ok \in BOOLEAN :
         LET r == Logged(reqs[s], "insert")
             id == CorpIdNames[cidAlloc + 1]
         IN IF ~ok
            THEN /\ reqs' = [reqs EXCEPT ![s] = Respond(StoreError(r, "failed"), 500)]
                 /\ UNCHANGED <<corporate, cidAlloc>>
            ELSE /\ cidAlloc < MaxCorporates
                 /\ corporate' = (id :> NewCorporate(r)) @@ corporate
                 /\ cidAlloc' = cidAlloc + 1
                 /\ reqs' = [reqs EXCEPT ![s] = Respond([r EXCEPT !.id = id], 201)]
    /\ UNCHANGED <<router, users, restaurants, ridAlloc, stores, spotlight, clock>>

\* router.post("/:id/employees"): the param and body schemas, then requireAdmin.
PostEmployees(s, H, I, B) ==
    /\ router = "corporates"
    /\ \E hdr \in H, id \in I, batch \in B :
         Begin(s, NewRequest("POST /corporates/:id/employees", hdr, id, batch),
               IdSchema(id) /\ AddEmployeesSchema(batch), batch)

\* A removal that keeps the records it should drop.
KeepEmployee(existing, userId) ==
    SelectSeq(existing, LAMBDA e : e.user_id = userId)

\* next = existing.filter((e) => String(e?.user_id || "") !== userId)
RemoveEmployee(existing, userId) ==
    SelectSeq(existing, LAMBDA e : e.user_id # userId)

\* corporate.select(...).eq("id", corporateId).single(): no row is an error.
LoadCorporate(s) ==
    /\ reqs[s].pc = "load"
    /\ \E ok \in BOOLEAN :
         LET r == Logged(reqs[s], "load")
         IN reqs' = [reqs EXCEPT ![s] =
                IF ~ok \/ r.id \notin DOMAIN corporate THEN Respond(StoreError(r, IF ok THEN "PGRST116" ELSE "failed"), 500)
                ELSE IF r.route = "POST /corporates/:id/employees"
                THEN [r EXCEPT !.lcl = [existing |-> corporate[r.id].employees,
                                        seats |-> corporate[r.id].seats],
                               !.pc = "users"]
                ELSE [r EXCEPT !.lcl = [existing |-> corporate[r.id].employees,
                                        next |-> RemoveEmployee(corporate[r.id].employees,
                                                                r.arg.userId)],
                               !.pc = "cwrite"]]
    /\ UNCHANGED <<router, tables, clock>>

\* A map whose set moves a key it already holds to the end.
MapSetMovesToEnd(list, e) ==
    Append(SelectSeq(list, LAMBDA x : x.user_id # e.user_id), e)

\* byUserId.set(uid, e): a Map keeps the position of a key it already holds.
MapSet(list, e) ==
    IF \E i \in 1..Len(list) : list[i].user_id = e.user_id
    THEN [i \in 1..Len(list) |-> IF list[i].user_id = e.user_id THEN e ELSE list[i]]
    ELSE Append(list, e)

RECURSIVE MapSetAll(_, _)
MapSetAll(list, es) ==
    IF es = <<>> THEN list ELSE MapSetAll(MapSet(list, Head(es)), Tail(es))

\* The record the merge stores for an incoming employee.
Stored(emp, now) ==
    [user_id |-> emp.user_id, name |-> emp.name, email |-> emp.email,
     created_at |-> OrElse(emp, "created_at", now)]

\* A merge that starts from an empty map instead of the stored list.
ReplaceEmployees(existing, incoming, now) ==
    MapSetAll(<<>>, [i \in 1..Len(incoming) |-> Stored(incoming[i], now)])

\* merged = Array.from(byUserId.values())
MergeEmployees(existing, incoming, now) ==
    MapSetAll(MapSetAll(<<>>, existing),
              [i \in 1..Len(incoming) |-> Stored(incoming[i], now)])

\* A registry check that looks at the first record of the batch only.
FirstEmployeeKnown(incoming) ==
    /\ incoming[1].user_id \in Users /\ users[incoming[1].user_id].row
    /\ ToLowerCase(users[incoming[1].user_id].email) = ToLowerCase(incoming[1].email)

\* The registry check of the incoming records: the first failing record answers 400.
EmployeesKnown(incoming) ==
    \A i \in 1..Len(incoming) :
        /\ incoming[i].user_id \in Users /\ users[incoming[i].user_id].row
        /\ ToLowerCase(users[incoming[i].user_id].email) = ToLowerCase(incoming[i].email)

\* A seats check that also applies to a corporate without a seats limit.
SeatsExceededAlways(seats, merged) ==
    Len(merged) > seats

\* A seats check that allows one employee more than the seats.
SeatsExceededByTwo(seats, merged) ==
    seats > 0 /\ Len(merged) > seats + 1

\* Optional seats enforcement (if seats > 0).
SeatsExceeded(seats, merged) ==
    seats > 0 /\ Len(merged) > seats

\* router.post("/:id/employees") after users.select("id,email").in("id", ids):
\* the registry check, the merge and the seats check.
CheckEmployees(s) ==
    /\ reqs[s].pc = "users"
    /\ \E ok \in BOOLEAN :
         /\ LET r == Logged(reqs[s], "users")
                merged == MergeEmployees(r.lcl.existing, r.arg, clock)
            IN reqs' = [reqs EXCEPT ![s] =
                   IF ~ok THEN Respond(StoreError(r, "failed"), 500)
                   ELSE IF ~EmployeesKnown(r.arg) THEN Respond(r, 400)
                   ELSE IF SeatsExceeded(r.lcl.seats, merged) THEN Respond(r, 400)
                   ELSE [r EXCEPT !.lcl = [existing |-> r.lcl.existing, next |-> merged],
                                  !.pc = "cwrite"]]
    /\ UNCHANGED <<router, tables, clock>>

\* Time passes: new Date() of a later request reads a later instant.
Tick ==
    /\ router \in {"corporates", "auth"}
    /\ clock < MaxClock
    /\ clock' = clock + 1
    /\ UNCHANGED <<router, tables, reqs>>

\* router.delete("/:id/employees/:userId"): RemoveEmployeeParamSchema, then requireAdmin.
DeleteEmployee(s, H, I, U) ==
    /\ router = "corporates"
    /\ \E hdr \in H, id \in I, u \in U :
         Begin(s, NewRequest("DELETE /corporates/:id/employees/:userId", hdr, id,
                             [userId |-> u]),
               IdSchema(id) /\ IdSchema(u), [userId |-> u])

\* corporate.update({ employees }).eq("id", corporateId).select(...).single().
WriteEmployees(s) ==
    /\ reqs[s].pc = "cwrite"
    /\ \E ok \in BOOLEAN :
         LET r == Logged(reqs[s], "update")
         IN IF ~ok \/ r.id \notin DOMAIN corporate
            THEN /\ reqs' = [reqs EXCEPT ![s] = Respond(StoreError(r, IF ok THEN "PGRST116" ELSE "failed"), 500)]
                 /\ UNCHANGED corporate
            ELSE /\ corporate' = [corporate EXCEPT ![r.id].employees = r.lcl.next]
                 /\ reqs' = [reqs EXCEPT ![s] = Respond(r, 200)]
    /\ UNCHANGED <<router, users, restaurants, ridAlloc, stores, cidAlloc, spotlight, clock>>

(* ------------------------------ /api/auth ----------------------------- *)
\* A row of public.users, and the absence of one.
UserRow(role, email, now) ==
    [row |-> TRUE, role |-> role, email |-> email, last_login |-> now]

NoUserRow ==
    [row |-> FALSE, role |-> "", email |-> "", last_login |-> 0]

\* req.body of login-or-register: supabase_user is { id, email } or is missing.
LoginBodies ==
    {<<>>}
    \cup {[supabase_user |-> [id |-> u, email |-> e]] :
              u \in {"un", "uu", "ua"}, e \in {"un@x", "ua@x"}}

\* jwt.sign({ id, email, role }, JWT_SECRET, { expiresIn: "7d" }), JWT_SECRET being set.
Sign(id, email, role) ==
    [id |-> id, email |-> email, role |-> role]

\* authHandler up to its first await: `if (!supabase_user) return res.status(400)`.
LoginOrRegister(s, B) ==
    /\ router = "auth"
    /\ \E body \in B :
         Begin(s, NewRequest("POST /auth/login-or-register", <<"", "">>, NULL, body),
               "supabase_user" \in DOMAIN body, body)

\* A lookup that finds no user.
FoundNobody(id) == NoUserRow

\* users.select("*").eq("id", id).maybeSingle(): the row, or null (NoUserRow)
\* without an error.
FoundUser(id) ==
    IF users[id].row THEN users[id] ELSE NoUserRow

\* authHandler after the lookup: register when no user was found, else log in.
LookupUser(s) ==
    /\ reqs[s].pc = "alookup"
    /\ \E ok \in BOOLEAN :
         LET r == Logged(reqs[s], "lookup")
             user == FoundUser(r.arg.supabase_user.id)
         IN reqs' = [reqs EXCEPT ![s] =
                IF ~ok THEN Respond(StoreError(r, "failed"), 500)
                ELSE [r EXCEPT !.lcl = [user |-> user],
                               !.pc = IF ~user.row THEN "ainsert" ELSE "aupdate"]]
    /\ UNCHANGED <<router, tables, clock>>

\* The row the registration inserts: role "user", the timestamps set to now.
NewUser(su, now) ==
    UserRow("user", su.email, now)

\* A registration into a table that accepts a second insert of an id.
RegisterWithoutKey(s) ==
    /\ reqs[s].pc = "ainsert"
    /\ LET r == Logged(reqs[s], "insert")
           su == r.arg.supabase_user
           newUser == NewUser(su, clock)
       IN /\ users' = [users EXCEPT ![su.id] = newUser]
          /\ reqs' = [reqs EXCEPT ![s] =
                 Respond([r EXCEPT !.lcl =
                     [mode |-> "registered",
                      token |-> Sign(su.id, su.email, newUser.role),
                      user |-> newUser]], 200)]
    /\ UNCHANGED <<router, restaurants, ridAlloc, stores, corporate, cidAlloc, spotlight, clock>>

\* authHandler, register: users.insert({...}).select().single(), then the token;
\* users.id is the key of the table, so a second row of an id is an error.
RegisterUser(s) ==
    /\ reqs[s].pc = "ainsert"
    /\ \E ok \in BOOLEAN :
         LET r == Logged(reqs[s], "insert")
             su == r.arg.supabase_user
             newUser == NewUser(su, clock)
         IN IF ~ok \/ users[su.id].row
            THEN /\ reqs' = [reqs EXCEPT ![s] = Respond(StoreError(r, IF ok THEN "23505" ELSE "failed"), 500)]
                 /\ UNCHANGED users
            ELSE /\ users' = [users EXCEPT ![su.id] = newUser]
                 /\ reqs' = [reqs EXCEPT ![s] =
                        Respond([r EXCEPT !.lcl =
                            [mode |-> "registered",
                             token |-> Sign(su.id, su.email, newUser.role),
                             user |-> newUser]], 200)]
    /\ UNCHANGED <<router, restaurants, ridAlloc, stores, corporate, cidAlloc, spotlight, clock>>

\* authHandler, login: the result of the awaited update is not looked at.
LoginAnswer(r, ok, body) ==
    Respond([(IF ok THEN r ELSE StoreError(r, "failed")) EXCEPT !.lcl = body], 200)

\* authHandler, login: users.update({ last_login, last_opened }).eq("id", id),
\* then the token with the role of the row found by the lookup.
TouchLogin(s) ==
    /\ reqs[s].pc = "aupdate"
    /\ \E ok \in BOOLEAN :
         LET r == Logged(reqs[s], "update")
             su == r.arg.supabase_user
             user == r.lcl.user
         IN /\ users' = IF ok /\ users[su.id].row
                        THEN [users EXCEPT ![su.id].last_login = clock]
                        ELSE users
            /\ reqs' = [reqs EXCEPT ![s] =
                   LoginAnswer(r, ok, [mode |-> "logged_in",
                                       token |-> Sign(su.id, su.email, user.role),
                                       user |-> user])]
    /\ UNCHANGED <<router, restaurants, ridAlloc, stores, corporate, cidAlloc, spotlight, clock>>

(* ------------------------ /api/auth/create-user ----------------------- *)
\* The safety limit of the bulk mode.
BulkLimit == 200

\* The ids the auth subsystem gives to the accounts signUp creates.
NewUserIds == <<"n1", "n2", "n3", "n4">>

\* An element of users[] that is JSON null.
NullInput == [isNull |-> TRUE]

CreateUserInputs ==
    {[email |-> "n@x", password |-> "p", role |-> "user"],
     [email |-> "m@x", password |-> "p", role |-> "admin"],
     [email |-> "n@x"],
     NullInput}

\* req.body of create-user: one input, or { users: [...] } of up to MaxBulkLen
\* inputs, or of BulkLimit and BulkLimit + 1 inputs.
CreateUserBodies ==
    (CreateUserInputs \ {NullInput})
    \cup {[users |-> p] : p \in UNION {[1..k -> CreateUserInputs] : k \in 0..MaxBulkLen}}
    \cup {[users |-> [k \in 1..BulkLimit |-> [email |-> "n@x"]]],
          [users |-> [k \in 1..BulkLimit |->
                         IF k < BulkLimit THEN [email |-> "n@x"]
                         ELSE [email |-> "n@x", password |-> "p", role |-> "user"]]],
          [users |-> [k \in 1..(BulkLimit + 1) |-> [email |-> "n@x"]]]}

\* isBulk(req.body)
isBulk(body) == "users" \in DOMAIN body

\* The inputs createOneUser is called with, in order.
InputsOf(body) == IF isBulk(body) THEN body.users ELSE <<body>>

\* !email || !password || !role
Required(u) ==
    \A f \in {"email", "password", "role"} : f \in DOMAIN u /\ u[f] # ""

\* router.post("/create-user") up to its first await.
CreateUser(s, B) ==
    /\ router = "createuser"
    /\ reqs[s].pc = "idle"
    /\ \E body \in B :
         LET r == NewRequest("POST /auth/create-user", <<"", "">>, NULL, body)
         IN reqs' = [reqs EXCEPT ![s] =
                IF isBulk(body) /\ (Len(body.users) = 0 \/ Len(body.users) > BulkLimit)
                THEN Invalid(r)
                ELSE [Validated(r) EXCEPT
                         !.lcl = [i |-> 1, created |-> <<>>, failed |-> <<>>]]]
    /\ UNCHANGED <<router, tables, clock>>

\* createOneUser has returned: the single mode answers, the bulk loop goes on to
\* the next input or answers with its report after the last one.
Continue(r, ok) ==
    IF ~isBulk(r.arg) THEN Respond(r, IF ok THEN 201 ELSE 400)
    ELSE IF r.lcl.i = Len(r.arg.users) THEN Respond([r EXCEPT !.lcl.i = @ + 1], 200)
    ELSE [r EXCEPT !.lcl.i = @ + 1, !.pc = "attempt"]

\* failed.push({ email: u.email, error: result.error, ... })
Failed(r, error) ==
    LET u == InputsOf(r.arg)[r.lcl.i]
    IN Continue([r EXCEPT !.lcl.failed =
                    Append(@, [email |-> OrElse(u, "email", NULL), error |-> error])],
                FALSE)

\* created.push(result.user)
Created(r, user) ==
    Continue([r EXCEPT !.lcl.created = Append(@, user)], TRUE)

\* createOneUser up to the result of supabase.auth.signUp: destructuring a null
\* input throws and the handler's catch answers 500; signUp returns an error, no
\* user, no session, or an account with a session.
SignUp(s) ==
    /\ reqs[s].pc = "attempt"
    /\ LET r == Logged(reqs[s], "attempt")
           u == InputsOf(r.arg)[r.lcl.i]
       IN IF "isNull" \in DOMAIN u
          THEN reqs' = [reqs EXCEPT ![s] = Respond(r, 500)]
          ELSE IF ~Required(u)
          THEN reqs' = [reqs EXCEPT ![s] = Failed(r, "required")]
          ELSE \E out \in {"error", "nouser", "nosession", "session"} :
                 IF out # "session"
                 THEN reqs' = [reqs EXCEPT ![s] = Failed(r, out)]
                 ELSE /\ Cardinality(DOMAIN users \ Users) < MaxNewUsers
                      /\ reqs' = [reqs EXCEPT ![s] =
                            [r EXCEPT !.lcl =
                                 [userId |-> NewUserIds[Cardinality(DOMAIN users \ Users) + 1]] @@ @,
                                      !.pc = "uinsert"]]
    /\ UNCHANGED <<router, tables, clock>>

\* createOneUser: users.insert({ id: userId, email, role, ... }).select("*").single().
InsertUser(s) ==
    /\ reqs[s].pc = "uinsert"
    /\ \E ok \in BOOLEAN :
         LET r == Logged(reqs[s], "insert")
             u == InputsOf(r.arg)[r.lcl.i]
             id == r.lcl.userId
         IN IF ~ok \/ id \in DOMAIN users
            THEN /\ reqs' = [reqs EXCEPT ![s] = Failed(StoreError(r, IF ok THEN "23505" ELSE "failed"), "insert")]
                 /\ UNCHANGED users
            ELSE /\ users' = (id :> UserRow(u.role, u.email, 0)) @@ users
                 /\ reqs' = [reqs EXCEPT ![s] =
                        Created(r, [id |-> id, email |-> u.email, role |-> u.role])]
    /\ UNCHANGED <<router, restaurants, ridAlloc, stores, corporate, cidAlloc, spotlight, clock>>

(* ---------------------------- /api/spotlight -------------------------- *)
SpotIdNames == <<"p1", "p2", "p3", "p4">>

\* maxRow?.[0]?.order_index + 1 || 1, maxRow being null when the query failed.
NextOrder(ok) ==
    LET top == {spotlight[i].order_index : i \in DOMAIN spotlight}
        max == CHOOSE m \in top : \A n \in top : n <= m
    IN IF ~ok \/ top = {} \/ max + 1 = 0 THEN 1 ELSE max + 1

\* router.post("/") without a file: no validation and no guard.
PostSpotlight(s, B) ==
    /\ router = "spotlight"
    /\ Cardinality(DOMAIN spotlight) < MaxSpotlight
    /\ \E body \in B :
         Begin(s, NewRequest("POST /spotlight", <<"", "">>, NULL, body), TRUE, body)

\* router.post("/"): spotlight_items.select("order_index").order(...).limit(1),
\* of which only the data is read.
SelectMaxOrder(s) ==
    /\ reqs[s].pc = "smax"
    /\ \E ok \in BOOLEAN :
         LET r == Logged(reqs[s], "select")
         IN reqs' = [reqs EXCEPT ![s] =
                [(IF ok THEN r ELSE StoreError(r, "failed")) EXCEPT
                    !.lcl = [nextOrder |-> NextOrder(ok)], !.pc = "sinsert"]]
    /\ UNCHANGED <<router, tables, clock>>

\* router.post("/"): spotlight_items.insert([{...}]).select("*").single().
InsertSpotlight(s) ==
    /\ reqs[s].pc = "sinsert"
    /\ \E ok \in BOOLEAN :
         LET r == Logged(reqs[s], "insert")
             id == SpotIdNames[Cardinality(DOMAIN spotlight) + 1]
         IN IF ~ok
            THEN /\ reqs' = [reqs EXCEPT ![s] = Respond(StoreError(r, "failed"), 500)]
                 /\ UNCHANGED spotlight
            ELSE /\ Cardinality(DOMAIN spotlight) < MaxSpotlight
                 /\ spotlight' = (id :> [is_active |-> TRUE,
                                         order_index |-> r.lcl.nextOrder]) @@ spotlight
                 /\ reqs' = [reqs EXCEPT ![s] = Respond([r EXCEPT !.id = id], 200)]
    /\ UNCHANGED <<router, users, restaurants, ridAlloc, stores, corporate, cidAlloc, clock>>

\* router.delete("/:id"): no validation and no guard.
DeleteSpotlight(s, I) ==
    /\ router = "spotlight"
    /\ \E id \in I :
         Begin(s, NewRequest("DELETE /spotlight/:id", <<"", "">>, id, <<>>), TRUE, <<>>)

\* router.delete("/:id"): the awaited update({ is_active: false }).eq("id", id),
\* whose result is not read, then { success: true }.
DeactivateSpotlight(s) ==
    /\ reqs[s].pc = "sdeactivate"
    /\ \E ok \in BOOLEAN :
         LET r == Logged(reqs[s], "deactivate")
         IN /\ spotlight' = IF ok THEN SoftDeleteRow(spotlight, r.id) ELSE spotlight
            /\ reqs' = [reqs EXCEPT ![s] = Respond(IF ok THEN r ELSE StoreError(r, "failed"), 200)]
    /\ UNCHANGED <<router, users, restaurants, ridAlloc, stores, corporate, cidAlloc, clock>>

\* router.put("/reorder/list") up to `await Promise.all(jobs)`: order.map throws
\* when the body has no order array, and the catch answers 500.
ReorderSpotlight(s, B) ==
    /\ router = "spotlight"
    /\ reqs[s].pc = "idle"
    /\ \E body \in B :
         LET r == Logged(NewRequest("PUT /spotlight/reorder/list", <<"", "">>, NULL, body),
                         "validate")
         IN reqs' = [reqs EXCEPT ![s] =
                IF "order" \notin DOMAIN body THEN Respond(r, 500)
                ELSE [r EXCEPT !.lcl = [jobs |-> 1..Len(body.order)], !.pc = "sreorder"]]
    /\ UNCHANGED <<router, tables, clock>>

\* A reorder whose jobs write the position in the list instead of o.order_index.
ReorderByPosition(s) ==
    /\ reqs[s].pc = "sreorder"
    /\ LET r == reqs[s]
       IN IF r.lcl.jobs = {}
          THEN /\ reqs' = [reqs EXCEPT ![s] = Respond(r, 200)]
               /\ UNCHANGED spotlight
          ELSE \E k \in r.lcl.jobs :
                 LET r2 == [r EXCEPT !.lcl.jobs = @ \ {k}, !.log = Append(@, "update")]
                 IN /\ spotlight' =
                         IF r.arg.order[k].id \in DOMAIN spotlight
                         THEN [spotlight EXCEPT ![r.arg.order[k].id].order_index = k]
                         ELSE spotlight
                    /\ reqs' = [reqs EXCEPT ![s] =
                           IF r2.lcl.jobs = {} THEN Respond(r2, 200) ELSE r2]
    /\ UNCHANGED <<router, users, restaurants, ridAlloc, stores, corporate, cidAlloc, clock>>

\* One job of Promise.all(jobs) settles: update({ order_index }).eq("id", o.id), an
\* id without a row matching nothing. The jobs settle in any order, a job never
\* rejects, and the handler answers once they have all settled.
ReorderJob(s) ==
    /\ reqs[s].pc = "sreorder"
    /\ \E ok \in BOOLEAN :
         LET r == reqs[s]
             settled(k) ==
                 LET o == r.arg.order[k]
                     r2 == [(IF ok THEN r ELSE StoreError(r, "failed")) EXCEPT
                               !.lcl.jobs = @ \ {k}, !.log = Append(@, "update")]
                 IN /\ spotlight' =
                         IF ok /\ o.id \in DOMAIN spotlight
                         THEN [spotlight EXCEPT ![o.id].order_index = o.order_index]
                         ELSE spotlight
                    /\ reqs' = [reqs EXCEPT ![s] =
                           IF r2.lcl.jobs = {} THEN Respond(r2, 200) ELSE r2]
         IN IF r.lcl.jobs = {}
            THEN /\ reqs' = [reqs EXCEPT ![s] = Respond(r, 200)]
                 /\ UNCHANGED spotlight
            ELSE \E k \in r.lcl.jobs : settled(k)
    /\ UNCHANGED <<router, users, restaurants, ridAlloc, stores, corporate, cidAlloc, clock>>

(* --------------------------- specification ---------------------------- *)
InitUsers ==
    [u \in Users |->
        CASE u = "ua" -> UserRow("admin", "ua@x", 0)
          [] u = "us" -> UserRow("superadmin", "us@x", 0)
          [] u = "up" -> UserRow("restaurantpartner", "up@x", 0)
          [] u = "uq" -> UserRow("storepartner", "uq@x", 0)
          [] u = "uu" -> UserRow("user", "uu@x", 0)
          [] u = "ue" -> UserRow("", "ue@x", 0)
          [] OTHER -> NoUserRow]

InitRestaurants ==
    "r1" :> [name |-> "A", slug |-> "s1", is_active |-> TRUE,
             booking_enabled |-> TRUE, avg_duration_minutes |-> 90,
             owner_user_id |-> "up"]

InitSpotlight ==
    [p \in {"p1", "p2"} |->
        [is_active |-> TRUE, order_index |-> IF p = "p1" THEN 1 ELSE 2]]

InitStores ==
    [t \in StoreIds |-> [name |-> t, is_active |-> TRUE]]

Init ==
    /\ router \in {"restaurants", "stores", "corporates", "auth", "createuser",
                  "spotlight"}
    /\ users = InitUsers
    /\ restaurants = InitRestaurants
    /\ ridAlloc = 1
    /\ stores = InitStores
    /\ corporate = <<>>
    /\ cidAlloc = 0
    /\ spotlight = InitSpotlight
    /\ clock = 0
    /\ reqs = [s \in Slots |-> Idle]

Guards(s) ==
    \/ RequireAuth(s)
    \/ GetCallerRole(s)
    \/ FetchRestaurant(s)

RestaurantSteps(s) ==
    \/ InsertRestaurant(s)
    \/ UpdateRestaurant(s)
    \/ RestaurantExists(s)
    \/ RemoveRestaurant(s)
    \/ DeactivateRestaurant(s)
    \/ SelectRestaurants(s)
    \/ SelectRestaurant(s)

CorporateSteps(s) ==
    \/ ResolvePlan(s)
    \/ ValidateOwner(s)
    \/ InsertCorporate(s)
    \/ LoadCorporate(s)
    \/ CheckEmployees(s)
    \/ WriteEmployees(s)

StoreSteps(s) ==
    \/ SelectStores(s)
    \/ SelectStore(s)
    \/ StoreExists(s)
    \/ RemoveStore(s)
    \/ DeactivateStore(s)

\* The requests clients send to the restaurants router.
RestaurantRequests ==
    \/ PostRestaurant(1, Headers, CreateBodies)
    \/ PutRestaurant(1, Headers, RestaurantIdParams, UpdateBodies)
    \/ DeleteRestaurant(1, Headers, RestaurantIdParams, DeleteQueries)
    \/ ListRestaurants(1, ListQueries)
    \/ GetRestaurant(1, RestaurantIdParams)

RestaurantNext ==
    \/ RestaurantRequests
    \/ Guards(1)
    \/ RestaurantSteps(1)
    \/ Return(1)

\* The requests clients send to the stores router.
StoreRequests ==
    \/ ListStores(1, ListQueries)
    \/ GetStore(1, StoreIdParams)
    \/ DeleteStore(1, {<<"", "">>, <<"Bearer", "uu">>}, StoreIdParams, DeleteQueries)

CorporateNext ==
    \/ PostCorporate(1, CorporateHeaders, CreateCorporateBodies)
    \/ PostEmployees(1, CorporateHeaders, CorporateIdParams, EmployeeBatches)
    \/ DeleteEmployee(1, CorporateHeaders, CorporateIdParams, {"uu", "ue", "bad"})
    \/ RequireAuth(1)
    \/ GetCallerRole(1)
    \/ CorporateSteps(1)
    \/ Tick
    \/ Return(1)

\* The corporates routes called by every kind of caller, within one clock reading.
CorporateAccessRequests ==
    \/ PostCorporate(1, Headers,
                     {[name |-> "N", owner_user_id |-> "uu", owner_email |-> "uu@x", seats |-> 1],
                      [name |-> "N", owner_user_id |-> "uu", owner_email |-> "uu@x",
                       subscription_id |-> "sub1"],
                      [name |-> "N", owner_user_id |-> "uu", owner_email |-> "uu@x", seats |-> -1],
                      [name |-> "N", owner_user_id |-> "bad", owner_email |-> "uu@x"]})
    \/ PostEmployees(1, Headers, CorporateIdParams,
                     {<<>>,
                      <<[user_id |-> "uu", name |-> "n1", email |-> "uu@x"]>>,
                      <<[user_id |-> "bad", name |-> "n1", email |-> "uu@x"]>>})
    \/ DeleteEmployee(1, Headers, CorporateIdParams, {"uu", "bad"})

Next ==
    \/ RestaurantRequests
    \/ StoreRequests
    \/ CorporateAccessRequests
    \/ Guards(1)
    \/ RestaurantSteps(1)
    \/ StoreSteps(1)
    \/ CorporateSteps(1)
    \/ Return(1)

\* Requests one after the other, to the restaurants, stores or corporates router.
Spec == Init /\ [][Next]_vars

\* Requests one after the other, to one router.
RestaurantInit ==
    Init /\ router = "restaurants"

RestaurantSpec ==
    RestaurantInit /\ [][RestaurantNext]_vars

CorporateInit ==
    Init /\ router = "corporates"

CorporateSpec ==
    CorporateInit /\ [][CorporateNext]_vars

\* Two concurrent requests on one restaurant: the owning partner and an admin.
RaceHeaders == {<<"Bearer", "up">>, <<"Bearer", "ua">>}

RestaurantRaceNext ==
    \E s \in Slots :
        \/ PutRestaurant(s, RaceHeaders, {"r1"}, {[owner_user_id |-> "uq"], [is_active |-> FALSE]})
        \/ DeleteRestaurant(s, RaceHeaders, {"r1"}, {<<>>, [hard |-> "true"]})
        \/ Guards(s)
        \/ UpdateRestaurant(s)
        \/ RestaurantExists(s)
        \/ RemoveRestaurant(s)
        \/ DeactivateRestaurant(s)
        \/ Return(s)

RestaurantRaceSpec ==
    RestaurantInit /\ [][RestaurantRaceNext]_vars

\* Concurrent admin requests on the first corporate, within one clock reading.
CorporateRaceNext ==
    \E s \in Slots :
        \/ PostCorporate(s, {<<"Bearer", "ua">>},
                         {[name |-> "N", owner_user_id |-> "uu", owner_email |-> "uu@x", seats |-> n] :
                              n \in 0..MaxSeats})
        \/ PostEmployees(s, {<<"Bearer", "ua">>}, {CorpIdNames[1]},
                         {<<[user_id |-> "uu", name |-> "n1", email |-> "uu@x"]>>,
                          <<[user_id |-> "ue", name |-> "n1", email |-> "ue@x"]>>,
                          <<[user_id |-> "uu", name |-> "n1", email |-> "uu@x"],
                            [user_id |-> "ue", name |-> "n1", email |-> "ue@x"]>>})
        \/ DeleteEmployee(s, {<<"Bearer", "ua">>}, {CorpIdNames[1]}, {"uu"})
        \/ RequireAuth(s)
        \/ GetCallerRole(s)
        \/ ValidateOwner(s)
        \/ InsertCorporate(s)
        \/ LoadCorporate(s)
        \/ CheckEmployees(s)
        \/ WriteEmployees(s)
        \/ Return(s)

CorporateRaceSpec ==
    CorporateInit /\ [][CorporateRaceNext]_vars

\* Admin requests on the first corporate, one after the other, while time passes.
EmployeeNext ==
    \/ PostCorporate(1, {<<"Bearer", "ua">>},
                     {[name |-> "N", owner_user_id |-> "uu", owner_email |-> "uu@x", seats |-> n] :
                          n \in 0..MaxSeats})
    \/ PostEmployees(1, {<<"Bearer", "ua">>}, {CorpIdNames[1]}, EmployeeBatches)
    \/ DeleteEmployee(1, {<<"Bearer", "ua">>}, {CorpIdNames[1]}, {"uu", "ue"})
    \/ RequireAuth(1)
    \/ GetCallerRole(1)
    \/ ValidateOwner(1)
    \/ InsertCorporate(1)
    \/ LoadCorporate(1)
    \/ CheckEmployees(1)
    \/ WriteEmployees(1)
    \/ Tick
    \/ Return(1)

EmployeeSpec ==
    CorporateInit /\ [][EmployeeNext]_vars

\* Calls of login-or-register, one after the other, while time passes.
AuthNext ==
    \/ LoginOrRegister(1, LoginBodies)
    \/ LookupUser(1)
    \/ RegisterUser(1)
    \/ TouchLogin(1)
    \/ Tick
    \/ Return(1)

AuthInit ==
    Init /\ router = "auth"

AuthSpec ==
    AuthInit /\ [][AuthNext]_vars

\* Two calls of login-or-register in flight, every await a separate step.
AuthRaceNext ==
    \E s \in Slots :
        \/ LoginOrRegister(s, LoginBodies \ {<<>>})
        \/ LookupUser(s)
        \/ RegisterUser(s)
        \/ TouchLogin(s)
        \/ Return(s)

AuthRaceSpec ==
    AuthInit /\ [][AuthRaceNext]_vars

\* Calls of create-user, one after the other.
CreateUserNext ==
    \/ CreateUser(1, CreateUserBodies)
    \/ SignUp(1)
    \/ InsertUser(1)
    \/ Return(1)

CreateUserInit ==
    Init /\ router = "createuser"

CreateUserSpec ==
    CreateUserInit /\ [][CreateUserNext]_vars

\* Requests to the spotlight router, one after the other.
SpotlightNext ==
    \/ PostSpotlight(1, {[title |-> "T", media_type |-> "image"]})
    \/ DeleteSpotlight(1, {"p1", "p2", GhostId})
    \/ ReorderSpotlight(1, {<<>>,
                            [order |-> <<>>],
                            [order |-> <<[id |-> "p1", order_index |-> 2],
                                         [id |-> "p2", order_index |-> 1]>>],
                            [order |-> <<[id |-> "p1", order_index |-> -1],
                                         [id |-> GhostId, order_index |-> 1]>>],
                            [order |-> <<[id |-> "p1", order_index |-> 3],
                                         [id |-> "p1", order_index |-> 0]>>]})
    \/ SelectMaxOrder(1)
    \/ InsertSpotlight(1)
    \/ DeactivateSpotlight(1)
    \/ ReorderJob(1)
    \/ Return(1)

SpotlightInit ==
    Init /\ router = "spotlight"

SpotlightSpec ==
    SpotlightInit /\ [][SpotlightNext]_vars

\* The role of a registered user is rewritten in public.users while guarded
\* requests are served.
ChangeRole ==
    /\ router = "restaurants"
    /\ \E u \in {"ua", "up"}, role \in {"admin", "restaurantpartner", "user"} :
         /\ users[u].role # role
         /\ users' = [users EXCEPT ![u].role = role]
    /\ UNCHANGED <<router, restaurants, ridAlloc, stores, corporate, cidAlloc,
                   spotlight, clock, reqs>>

\* Updates and deletes of the first restaurant by an admin and a partner, one
\* after the other, while roles and the owner change.
RoleChangeNext ==
    \/ PutRestaurant(1, RaceHeaders, {RestIdNames[1]},
                     {[is_active |-> FALSE], [owner_user_id |-> "uq"],
                      [owner_user_id |-> "up"]})
    \/ DeleteRestaurant(1, RaceHeaders, {RestIdNames[1]}, {<<>>})
    \/ Guards(1)
    \/ UpdateRestaurant(1)
    \/ RestaurantExists(1)
    \/ DeactivateRestaurant(1)
    \/ ChangeRole
    \/ Return(1)

RoleChangeSpec ==
    RestaurantInit /\ [][RoleChangeNext]_vars

\* List requests over every limit and offset string.
PagingNext ==
    \/ ListRestaurants(1, PagingQueries)
    \/ ListStores(1, PagingQueries)
    \/ SelectRestaurants(1)
    \/ SelectStores(1)
    \/ Return(1)

PagingInit ==
    Init /\ router \in {"restaurants", "stores"}

PagingSpec ==
    PagingInit /\ [][PagingNext]_vars

(* ------------------------------- claims ------------------------------- *)
Last(seq) == seq[Len(seq)]
Has(seq, x) == \E i \in 1..Len(seq) : seq[i] = x

WriteRoutes == {"PUT /restaurants/:id", "DELETE /restaurants/:id"}
ListRoutes == {"GET /restaurants", "GET /stores"}
AdminRoles == {"admin", "superadmin"}
PartnerRoles == {"restaurantpartner", "storepartner"}

\* The request carries a valid session token.
Authenticated(r) == r.hdr[1] = "Bearer" /\ r.hdr[2] \in Users

\* The role the registry holds for the caller of r, "" when it holds none.
RegistryRole(r) ==
    IF users[r.hdr[2]].row THEN users[r.hdr[2]].role ELSE ""

\* The guard of r has just decided: it admitted r into the handler body, or it
\* answered, and no step of the handler body has run since.
GuardDecided(r) ==
    /\ GuardOf(r.route) # "none"
    /\ Has(r.log, "token")
    /\ Last(r.log) \in {"token", "auth", "role", "fetch"}
    /\ r.admitted \/ r.pc = "done"

\* The condition of the write guard: admin, or partner owning the target row.
MayWrite(r) ==
    /\ Authenticated(r)
    /\ \/ RegistryRole(r) \in AdminRoles
       \/ /\ RegistryRole(r) \in PartnerRoles
          /\ r.id \in DOMAIN restaurants
          /\ restaurants[r.id].owner_user_id = r.hdr[2]

\* C1 as stated: for a validated PUT or DELETE /restaurants/:id the write guard
\* admits exactly the authenticated callers that are admin or superadmin, or are
\* partners owning the existing target row; every other caller is denied and the
\* handler gets no context.
C1_AdmitsIffAdminOrOwner ==
    \A s \in Slots :
        LET r == reqs[s]
        IN (r.route \in WriteRoutes /\ GuardDecided(r)) =>
              /\ r.admitted <=> MayWrite(r)
              /\ ~r.admitted => r.pc = "done" /\ r.nresp = 1

\* C1 amended: the write guard admits exactly the authenticated callers that are
\* admin, or partners owning the existing target row, and whose role and restaurant
\* lookups did not fail; a failed lookup is answered 500 whoever the caller is, and
\* every denial is one of 401, 403, 404 and 500 with no context returned.
C1_AdmitsIffAdminOrOwnerUnlessLookupFails ==
    \A s \in Slots :
        LET r == reqs[s]
        IN (r.route \in WriteRoutes /\ GuardDecided(r)) =>
              /\ r.admitted <=> (MayWrite(r) /\ r.status # 500)
              /\ ~r.admitted =>
                    /\ r.pc = "done" /\ r.nresp = 1
                    /\ r.status \in {401, 403, 404, 500}
                    /\ r.status = 401 <=> ~Authenticated(r)

\* A partner admitted to write the restaurant it owns.
C1_PartnerAdmitted ==
    \E s \in Slots :
        /\ reqs[s].route \in WriteRoutes /\ GuardDecided(reqs[s])
        /\ reqs[s].admitted
        /\ RegistryRole(reqs[s]) \in PartnerRoles

\* The step s takes changes a restaurant row or removes one.
WritesRestaurant(s) ==
    reqs'[s] # reqs[s] /\ restaurants' # restaurants

\* C2: whenever a request of a caller with a partner role updates, soft-deletes or
\* hard-deletes a restaurant row, the row's owner_user_id is the caller's id at the
\* moment the write is applied, whatever requests ran between its ownership check
\* and its write; and a partner answered 403 has left the row unchanged.
C2_PartnerWritesOwnRowsOnly ==
    [][\A s \in Slots :
          LET r == reqs[s]
          IN /\ (r.route \in WriteRoutes /\ r.role \in PartnerRoles /\ WritesRestaurant(s)) =>
                    /\ r.id \in DOMAIN restaurants
                    /\ restaurants[r.id].owner_user_id = r.caller
             /\ (r.route \in WriteRoutes /\ r.role \in PartnerRoles
                   /\ reqs'[s] # reqs[s] /\ reqs'[s].status = 403) =>
                    restaurants' = restaurants
      ]_vars

\* The caller's registry role is admin or superadmin.
IsAdminCaller(r) ==
    Authenticated(r) /\ RegistryRole(r) \in AdminRoles

\* C3 as stated: requireAdmin admits exactly the authenticated callers whose
\* registry role is admin or superadmin, and denies every other authenticated
\* caller (no registry row, empty role, user, partner) with 403.
C3_AdminGuardIffAdminRole ==
    \A s \in Slots :
        LET r == reqs[s]
        IN (GuardOf(r.route) = "admin" /\ GuardDecided(r)) =>
              /\ r.admitted <=> IsAdminCaller(r)
              /\ (Authenticated(r) /\ ~IsAdminCaller(r)) => r.status = 403

\* C3 amended: when the role lookup succeeds, requireAdmin admits exactly the
\* authenticated callers whose registry role is admin or superadmin and denies
\* every other authenticated caller with 403; when the role lookup fails it
\* denies with 500 whatever the caller's role.
C3_AdminGuardIffAdminRoleUnlessLookupFails ==
    \A s \in Slots :
        LET r == reqs[s]
        IN (GuardOf(r.route) = "admin" /\ GuardDecided(r)) =>
              /\ r.admitted <=> (IsAdminCaller(r) /\ r.status # 500)
              /\ (Authenticated(r) /\ ~IsAdminCaller(r)) => r.status \in {403, 500}
              /\ ~Authenticated(r) => r.status = 401
              /\ ~r.admitted => r.pc = "done" /\ r.nresp = 1

\* An authenticated caller without a registry row denied with 403.
C3_NoRowDenied ==
    \E s \in Slots :
        /\ GuardOf(reqs[s].route) = "admin" /\ GuardDecided(reqs[s])
        /\ reqs[s].hdr[2] \in Users /\ ~users[reqs[s].hdr[2]].row
        /\ reqs[s].status = 403

\* C4: a request its guard did not admit (answered 401, 403, 404 or 500) takes no
\* step that changes the restaurants or corporate tables, its response is sent
\* once, and it takes no step after that response.
C4_DeniedRequestHasNoEffect ==
    [][\A s \in Slots :
          LET r == reqs'[s]
          IN (GuardOf(r.route) # "none" /\ ~r.admitted /\ reqs'[s] # reqs[s]) =>
                /\ <<restaurants, ridAlloc, corporate, cidAlloc>>'
                      = <<restaurants, ridAlloc, corporate, cidAlloc>>
                /\ r.nresp <= 1
                /\ reqs[s].pc # "done"
                /\ (r.pc = "done" /\ Has(r.log, "token")) =>
                      r.status \in {401, 403, 404, 500}
      ]_vars

\* A partner denied with 403 on a restaurant that exists and is owned by another.
C4_DeniedOnExistingRow ==
    \E s \in Slots :
        /\ reqs[s].route = "DELETE /restaurants/:id"
        /\ reqs[s].pc = "done" /\ ~reqs[s].admitted /\ reqs[s].status = 403
        /\ reqs[s].role \in PartnerRoles
        /\ reqs[s].id \in DOMAIN restaurants

\* The write guard has decided on r, whose caller is authenticated and not an
\* admin, and the restaurant id of r names no row.
MissingRowDecided(r) ==
    /\ r.route \in WriteRoutes /\ GuardDecided(r)
    /\ Authenticated(r) /\ RegistryRole(r) \notin AdminRoles
    /\ r.id \notin DOMAIN restaurants

\* C5 as stated: an authenticated non-admin caller (partner, user, empty role or
\* no registry row) that names a restaurant id without a row is answered 404 by
\* the write guard, never 403.
C5_MissingRowIs404 ==
    \A s \in Slots :
        MissingRowDecided(reqs[s]) => reqs[s].status = 404 /\ reqs[s].status # 403

\* C5 amended: on a restaurant id without a row the write guard answers a caller
\* with a partner role 404 (500 when a lookup fails), and answers a caller with
\* role user, an empty role or no registry row 403 (500 when the role lookup
\* fails) without looking the restaurant up.
C5_MissingRowIs404ForPartners ==
    \A s \in Slots :
        LET r == reqs[s]
        IN MissingRowDecided(r) =>
              IF RegistryRole(r) \in PartnerRoles
              THEN r.status \in {404, 500}
              ELSE r.status \in {403, 500} /\ ~Has(r.log, "fetch")

\* A partner answered 404 on an id that names no row.
C5_PartnerGets404 ==
    \E s \in Slots :
        /\ MissingRowDecided(reqs[s])
        /\ RegistryRole(reqs[s]) \in PartnerRoles
        /\ reqs[s].status = 404

\* The id, query or body of r passes the schemas of its route.
InputValid(r) ==
    CASE r.route = "POST /restaurants" -> CreateRestaurantSchema(r.raw)
      [] r.route = "PUT /restaurants/:id" -> IdSchema(r.id) /\ UpdateRestaurantSchema(r.raw)
      [] r.route \in {"DELETE /restaurants/:id", "GET /restaurants/:id",
                      "DELETE /stores/:id", "GET /stores/:id"} -> IdSchema(r.id)
      [] r.route \in ListRoutes -> ListQuerySchema(r.raw)
      [] r.route = "POST /corporates" -> CreateCorporateSchema(r.raw)
      [] r.route = "POST /corporates/:id/employees" ->
            IdSchema(r.id) /\ AddEmployeesSchema(r.raw)
      [] r.route = "DELETE /corporates/:id/employees/:userId" ->
            IdSchema(r.id) /\ IdSchema(r.raw.userId)
      [] OTHER -> TRUE

\* C6: a request whose id, query or body fails its route's schema is answered 400
\* in the step that parsed it: the guard has not run (no token, session or role
\* step, so an unauthenticated caller gets 400 and not 401), no data-store call
\* was made, and no table changed.
C6_InvalidInputIs400BeforeGuard ==
    [][\A s \in Slots :
          LET r == reqs'[s]
          IN (r.route # "none" /\ ~InputValid(r)) =>
                /\ r.pc = "done" /\ r.status = 400 /\ r.nresp = 1
                /\ r.log = <<"validate">>
                /\ ~r.admitted
                /\ reqs'[s] # reqs[s] => tables' = tables
      ]_vars

\* An invalid request from a caller without a token, answered 400.
C6_UnauthenticatedInvalid ==
    \E s \in Slots :
        /\ GuardOf(reqs[s].route) # "none"
        /\ ~InputValid(reqs[s])
        /\ getBearerToken(reqs[s].hdr) = NULL
        /\ reqs[s].status = 400

\* The list query of r has reached the data store.
ReachedStore(r) == r.pc = "list" \/ Has(r.log, "select")

\* The string of parameter f denotes a number between lo and hi.
Within(q, f, lo, hi) ==
    /\ Number(q[f]).kind = "num"
    /\ lo <= Number(q[f]).val /\ Number(q[f]).val <= hi

\* C7 as stated: a list call that reaches the data store has 0 < limit <= 100 and
\* offset >= 0, limit 20 and offset 0 when the parameter is omitted; a request
\* whose limit or offset is given and is not a number within these bounds is
\* answered 400 and issues no query.
C7_PagingBounds ==
    \A s \in Slots :
        LET r == reqs[s]
            q == r.raw
            limitOk == "limit" \notin DOMAIN q \/ Within(q, "limit", 1, MaxLimit)
            offsetOk == "offset" \notin DOMAIN q
                           \/ (Number(q.offset).kind = "num" /\ Number(q.offset).val >= 0)
        IN r.route \in ListRoutes =>
              /\ ReachedStore(r) =>
                    /\ 0 < r.arg.limit /\ r.arg.limit <= MaxLimit /\ r.arg.offset >= 0
                    /\ "limit" \notin DOMAIN q => r.arg.limit = DefaultLimit
                    /\ "offset" \notin DOMAIN q => r.arg.offset = DefaultOffset
              /\ ~(limitOk /\ offsetOk) =>
                    r.pc = "done" /\ r.status = 400 /\ r.log = <<"validate">>

\* Parameter f is omitted, or given with the empty string.
Unset(q, f) == f \notin DOMAIN q \/ q[f] = <<>>

\* C7 amended: a list call that reaches the data store has 0 < limit <= 100 and
\* offset >= 0, limit 20 and offset 0 when the parameter is omitted or empty and
\* the number the string denotes otherwise; a request whose non-empty limit or
\* offset is not a number within these bounds is answered 400 and issues no query.
C7_PagingBoundsEmptyIsDefault ==
    \A s \in Slots :
        LET r == reqs[s]
            q == r.raw
            limitOk == Unset(q, "limit") \/ Within(q, "limit", 1, MaxLimit)
            offsetOk == Unset(q, "offset")
                           \/ (Number(q.offset).kind = "num" /\ Number(q.offset).val >= 0)
        IN r.route \in ListRoutes =>
              /\ ReachedStore(r) =>
                    /\ 0 < r.arg.limit /\ r.arg.limit <= MaxLimit /\ r.arg.offset >= 0
                    /\ r.arg.limit =
                          IF Unset(q, "limit") THEN DefaultLimit ELSE Number(q.limit).val
                    /\ r.arg.offset =
                          IF Unset(q, "offset") THEN DefaultOffset ELSE Number(q.offset).val
              /\ ~(limitOk /\ offsetOk) =>
                    r.pc = "done" /\ r.status = 400 /\ r.log = <<"validate">>
              /\ (limitOk /\ offsetOk /\ InputValid(r) /\ r.pc = "done") =>
                    Has(r.log, "select")

\* A list call with limit=100 and an offset given that was answered from the store.
C7_LimitAtUpperBound ==
    \E s \in Slots :
        /\ reqs[s].route \in ListRoutes
        /\ reqs[s].status = 200
        /\ "limit" \in DOMAIN reqs[s].raw /\ reqs[s].raw.limit = <<"1", "0", "0">>
        /\ "offset" \in DOMAIN reqs[s].raw /\ reqs[s].arg.offset > 0

\* The list request r asks for the default view: no includeInactive=true, no status.
DefaultView(r) ==
    /\ r.route \in ListRoutes
    /\ ~("includeInactive" \in DOMAIN r.raw /\ r.raw.includeInactive = "true")
    /\ "status" \notin DOMAIN r.raw

\* C8: every item a list call returns without includeInactive=true and without a
\* status parameter has is_active = true, after any sequence of creates, updates
\* and soft deletes.
C8_DefaultListIsActiveOnly ==
    \A s \in Slots :
        LET r == reqs[s]
        IN (DefaultView(r) /\ r.status = 200) =>
              \A i \in 1..Len(r.lcl.items) : r.lcl.items[i].is_active = TRUE

\* A default list that returned an item while the table held an inactive row.
C8_InactiveRowLeftOut ==
    \E s \in Slots :
        /\ DefaultView(reqs[s]) /\ reqs[s].status = 200
        /\ Len(reqs[s].lcl.items) > 0
        /\ \/ /\ reqs[s].route = "GET /restaurants"
              /\ \E i \in DOMAIN restaurants : ~restaurants[i].is_active
           \/ /\ reqs[s].route = "GET /stores"
              /\ \E i \in DOMAIN stores : ~stores[i].is_active

\* What the answering step of a DELETE of id does to table T, T2 being the table
\* after it, and of a GET by id.
DeleteOutcome(T, T2, r, r2) ==
    LET hard == "hard" \in DOMAIN r.raw /\ r.raw.hard = "true"
    IN /\ (r2.status = 200 /\ hard) =>
              /\ r.id \in DOMAIN T
              /\ T2 = [i \in DOMAIN T \ {r.id} |-> T[i]]
       /\ (r2.status = 200 /\ ~hard) =>
              /\ r.id \in DOMAIN T
              /\ T2 = [T EXCEPT ![r.id] = [@ EXCEPT !.is_active = FALSE]]
              /\ ~T[r.id].is_active => T2 = T
       /\ r2.status # 200 => T2 = T
       /\ (r.id \notin DOMAIN T /\ Last(r2.log) \in {"fetch", "exists"}) =>
              r2.status \in {404, 500}

GetOutcome(T, r, r2) ==
    /\ r2.status = 200 => r.id \in DOMAIN T /\ r2.lcl = T[r.id]
    /\ (r.id \in DOMAIN T /\ Has(r2.log, "select")) => r2.status \in {200, 500}
    /\ (r.id \notin DOMAIN T /\ Has(r2.log, "select")) => r2.status \in {404, 500}

\* C9: a DELETE answered 200 with hard=true has removed exactly the row of its id,
\* and the id never names a row again, so no later GET by id finds it; answered 200
\* with hard omitted or other than "true" it has left the row in place with
\* is_active false and every other field as it was (nothing changes when the row
\* was inactive already), and a GET by id returns the row whatever its is_active;
\* a DELETE whose lookup finds no row is answered 404 (500 when the lookup itself
\* fails) and a DELETE not answered 200 changes nothing.
C9_DeleteSemantics ==
    [][\A s \in Slots :
          LET r == reqs[s]
              r2 == reqs'[s]
              answers == r.pc \notin {"idle", "done"} /\ r2.pc = "done"
          IN /\ (r.route = "DELETE /restaurants/:id" /\ answers) =>
                    DeleteOutcome(restaurants, restaurants', r, r2)
             /\ (r.route = "DELETE /stores/:id" /\ answers) =>
                    DeleteOutcome(stores, stores', r, r2)
             /\ (r.route = "GET /restaurants/:id" /\ answers) =>
                    GetOutcome(restaurants, r, r2)
             /\ (r.route = "GET /stores/:id" /\ answers) =>
                    GetOutcome(stores, r, r2)
             /\ \A i \in 1..ridAlloc :
                    RestIdNames[i] \notin DOMAIN restaurants =>
                        RestIdNames[i] \notin DOMAIN restaurants'
             /\ DOMAIN stores' \subseteq DOMAIN stores
      ]_vars

\* A hard delete answered 200 whose row is gone.
C9_HardDeleted ==
    \E s \in Slots :
        /\ reqs[s].route \in {"DELETE /restaurants/:id", "DELETE /stores/:id"}
        /\ reqs[s].status = 200 /\ reqs[s].arg.hard
        /\ reqs[s].id \notin DOMAIN restaurants /\ reqs[s].id \notin DOMAIN stores

\* C10: a corporate with seats > 0 never holds more employees than seats, whatever
\* the order and interleaving of the append and removal requests.
C10_EmployeesWithinSeats ==
    \A c \in DOMAIN corporate :
        corporate[c].seats > 0 => Len(corporate[c].employees) <= corporate[c].seats

\* A corporate filled to its seats while another append, checked against the
\* list it loaded earlier, is about to write.
C10_FullWhileAppendInFlight ==
    \E c \in DOMAIN corporate :
        /\ corporate[c].seats > 0
        /\ Len(corporate[c].employees) = corporate[c].seats
        /\ \E s \in Slots :
              /\ reqs[s].route = "POST /corporates/:id/employees"
              /\ reqs[s].pc = "cwrite"
              /\ reqs[s].id = c
              /\ reqs[s].lcl.next # corporate[c].employees

AppendRoute == "POST /corporates/:id/employees"
RemoveRoute == "DELETE /corporates/:id/employees/:userId"

\* The records of list whose user_id is u.
RecordsOf(list, u) == {k \in 1..Len(list) : list[k].user_id = u}

\* The last record of batch for user_id u.
LastOf(batch, u) ==
    batch[CHOOSE i \in RecordsOf(batch, u) : \A j \in RecordsOf(batch, u) : j <= i]

\* The stored record rec is what a submission of the batch record emp leaves:
\* its created_at is the one sent, or a reading of the server's clock.
StoredFrom(rec, emp) ==
    /\ rec.user_id = emp.user_id /\ rec.name = emp.name /\ rec.email = emp.email
    /\ IF "created_at" \in DOMAIN emp
       THEN rec.created_at = emp.created_at
       ELSE rec.created_at \in 0..clock

\* The list holds exactly one record for each user_id of the batch, the one its
\* last record for that user_id leaves: what a list is after the batch was submitted.
HoldsBatch(list, batch) ==
    \A i \in 1..Len(batch) :
        LET u == batch[i].user_id
        IN /\ Cardinality(RecordsOf(list, u)) = 1
           /\ \A k \in RecordsOf(list, u) : StoredFrom(list[k], LastOf(batch, u))

\* The step of slot s is the store write of a request of that route, answered 200.
Succeeds(s, route) ==
    /\ reqs[s].route = route /\ reqs[s].pc = "cwrite"
    /\ reqs'[s].status = 200

\* C11: an append answered 200 leaves exactly one record for each user_id of its
\* batch, the batch's last record for that user_id, and when the stored list is
\* already the list a submission of the same batch left, the append leaves the
\* stored list equal to it.
C11_MergeKeyedAndIdempotent ==
    [][\A s \in Slots :
          Succeeds(s, AppendRoute) =>
              LET r == reqs[s]
                  before == corporate[r.id].employees
                  after == corporate'[r.id].employees
              IN /\ HoldsBatch(after, r.arg)
                 /\ HoldsBatch(before, r.arg) => after = before
      ]_vars

\* Every record of the batch names a registry row whose email is the record's,
\* compared case-insensitively.
MatchesRegistry(batch) ==
    \A i \in 1..Len(batch) :
        LET u == batch[i].user_id
        IN u \in Users /\ users[u].row
           /\ ToLowerCase(users[u].email) = ToLowerCase(batch[i].email)

\* The number of user_ids of the stored list and the batch together.
MergedSize(list, batch) ==
    Cardinality({list[k].user_id : k \in 1..Len(list)}
                    \cup {batch[i].user_id : i \in 1..Len(batch)})

\* The step of slot s is the decision of an append on its batch: the registry
\* lookup has answered without an error.
Decides(s) ==
    /\ reqs[s].route = AppendRoute /\ reqs[s].pc = "users"
    /\ reqs'[s].pc # "users" /\ reqs'[s].status # 500

\* The append of slot s is answered 400 by this step and nothing of it is applied.
Rejected(s) ==
    /\ reqs'[s].status = 400 /\ reqs'[s].pc = "done"
    /\ ~Has(reqs'[s].log, "update")
    /\ corporate' = corporate

\* C12: an append whose merged list would hold more user_ids than the positive
\* seats of its corporate is answered 400 and the stored list stays as it was;
\* with seats 0 a batch that matches the registry is never rejected, whatever
\* the size of the merged list.
C12_SeatsRejectWholeBatch ==
    [][\A s \in Slots :
          Decides(s) =>
              LET r == reqs[s]
                  corp == corporate[r.id]
              IN /\ (corp.seats > 0 /\ MergedSize(corp.employees, r.arg) > corp.seats)
                        => Rejected(s)
                 /\ (corp.seats = 0 /\ MatchesRegistry(r.arg))
                        => reqs'[s].pc = "cwrite" /\ reqs'[s].status = 0
      ]_vars

\* An append of known employees answered 400 because the merged list exceeds the seats.
C12_RejectedForSize ==
    \E s \in Slots :
        LET r == reqs[s]
        IN /\ r.route = AppendRoute /\ r.status = 400 /\ Last(r.log) = "users"
           /\ MatchesRegistry(r.arg)
           /\ corporate[r.id].seats > 0
           /\ corporate[r.id].employees # <<>>
           /\ MergedSize(corporate[r.id].employees, r.arg) > corporate[r.id].seats

\* C13: an append with a record whose user_id has no registry row, or whose email
\* differs from the registry email of its user_id (case-insensitively), is
\* answered 400 and the stored list stays as it was: no record of the batch is applied.
C13_UnknownEmployeeRejectsBatch ==
    [][\A s \in Slots :
          (Decides(s) /\ ~MatchesRegistry(reqs[s].arg)) => Rejected(s)
      ]_vars

\* An append answered 400 whose first record matches the registry and a later one does not.
C13_ValidRecordNotApplied ==
    \E s \in Slots :
        LET r == reqs[s]
        IN /\ r.route = AppendRoute /\ r.status = 400 /\ Last(r.log) = "users"
           /\ Len(r.arg) > 1
           /\ MatchesRegistry(<<r.arg[1]>>) /\ ~MatchesRegistry(r.arg)
           /\ \A k \in 1..Len(corporate[r.id].employees) :
                  corporate[r.id].employees[k].user_id # r.arg[1].user_id

\* The list without its records of user_id u, the others in their order.
RECURSIVE Without(_, _)
Without(list, u) ==
    IF list = <<>> THEN <<>>
    ELSE IF Head(list).user_id = u THEN Without(Tail(list), u)
    ELSE <<Head(list)>> \o Without(Tail(list), u)

\* C14: a removal answered 200 leaves the stored list without any record of
\* userId and with every other record in its original order, so the list is
\* unchanged when it held no such record (a second removal changes nothing);
\* on an existing corporate an admitted removal is never answered 404 or 400,
\* whether or not the list holds a record of userId.
C14_RemovalFiltersByUserId ==
    [][\A s \in Slots :
          LET r == reqs[s]
              u == r.arg.userId
          IN /\ Succeeds(s, RemoveRoute) =>
                    LET before == corporate[r.id].employees
                        after == corporate'[r.id].employees
                    IN /\ RecordsOf(after, u) = {}
                       /\ after = Without(before, u)
                       /\ RecordsOf(before, u) = {} => after = before
             /\ (r.route = RemoveRoute /\ r.pc \in {"load", "cwrite"}
                    /\ r.id \in DOMAIN corporate /\ reqs'[s].pc = "done")
                   => reqs'[s].status \in {200, 500}
      ]_vars

\* A removal answered 200 that dropped the first of two records and kept the second.
C14_RemovedFirstOfTwo ==
    \E s \in Slots :
        LET r == reqs[s]
        IN /\ r.route = RemoveRoute /\ r.status = 200
           /\ Len(r.lcl.existing) = 2
           /\ r.lcl.existing[1].user_id = r.arg.userId
           /\ corporate[r.id].employees = <<r.lcl.existing[2]>>

LoginRoute == "POST /auth/login-or-register"

\* The step of slot s answers a login-or-register call with success.
Issues(s) ==
    /\ reqs[s].route = LoginRoute /\ reqs[s].pc \notin {"idle", "done"}
    /\ reqs'[s].pc = "done" /\ reqs'[s].status = 200

\* Every registry row but the one of id is left as it was.
OthersKept(id) ==
    \A u \in Users \ {id} : users'[u] = users[u]

\* C15: with calls one after the other, a call answered with success for an
\* identity without a registry row returns mode registered and leaves the one row
\* of that identity, with role user; a call answered with success for an identity
\* that has a row returns mode logged_in and leaves its row in place, role and
\* email as they were; an insert is attempted only for an identity without a row,
\* and no other identity's row is touched.
C15_RegisterOnceThenLogin ==
    [][\A s \in Slots :
          LET r == reqs[s]
              id == r.arg.supabase_user.id
          IN /\ (r.route = LoginRoute /\ r.pc = "ainsert") => ~users[id].row
             /\ (r.route = LoginRoute /\ r.pc = "aupdate") => users[id].row
             /\ Issues(s) =>
                    /\ OthersKept(id)
                    /\ IF ~users[id].row
                       THEN /\ reqs'[s].lcl.mode = "registered"
                            /\ users'[id].row /\ users'[id].role = "user"
                       ELSE /\ reqs'[s].lcl.mode = "logged_in"
                            /\ users'[id].row
                            /\ users'[id].role = users[id].role
                            /\ users'[id].email = users[id].email
      ]_vars

\* A login answered for an identity that had no row at the start: it registered earlier.
C15_LoggedInAfterRegistering ==
    \E s \in Slots :
        LET r == reqs[s]
        IN /\ r.route = LoginRoute /\ r.status = 200
           /\ r.lcl.mode = "logged_in"
           /\ ~InitUsers[r.arg.supabase_user.id].row
           /\ users[r.arg.supabase_user.id].role = "user"

\* C16: the token of a successful call carries the identity of the call and the
\* role of that identity's registry row, and, for an identity registered by this
\* flow, the email of the registering call, which is the email its row keeps (no
\* route changes a row's email or role): so does the token of every later login.
C16_TokenMatchesRegistry ==
    [][\A s \in Slots :
          Issues(s) =>
              LET id == reqs[s].arg.supabase_user.id
                  token == reqs'[s].lcl.token
              IN /\ token.id = id
                 /\ token.role = users'[id].role
                 /\ ~InitUsers[id].row => token.email = users'[id].email
      ]_vars

\* C17: a login-or-register call one of whose store calls returned an error is
\* answered with an error status, without a token and without an outcome, and no
\* store call of the handler is issued twice.
C17_StoreFailureIsFatal ==
    \A s \in Slots :
        LET r == reqs[s]
        IN r.route = LoginRoute =>
              /\ (r.err # "" /\ r.pc = "done") =>
                     /\ r.status >= 400
                     /\ "token" \notin DOMAIN r.lcl
                     /\ "mode" \notin DOMAIN r.lcl
              /\ \A i, j \in 1..Len(r.log) : r.log[i] = r.log[j] => i = j

CreateUserRoute == "POST /auth/create-user"

\* The number of registration attempts the request has made.
Attempts(r) == Cardinality({k \in 1..Len(r.log) : r.log[k] = "attempt"})

\* C18: a bulk create-user request with n users, 1 <= n <= BulkLimit, makes its
\* attempts one after the other in input order, each attempt adding its input to
\* exactly one of created and failed, and it ends with status 200 after exactly n
\* attempts with created_count + failed_count = n; with no users or more than
\* BulkLimit users it is answered 400 without any attempt.
C18_BulkAttemptsEveryInput ==
    \A s \in Slots :
        LET r == reqs[s]
            n == Len(r.raw.users)
        IN (r.route = CreateUserRoute /\ isBulk(r.raw)) =>
              /\ (n = 0 \/ n > BulkLimit) =>
                     r.pc = "done" /\ r.status = 400 /\ Attempts(r) = 0
              /\ n \in 1..BulkLimit =>
                     /\ Len(r.lcl.created) + Len(r.lcl.failed) = r.lcl.i - 1
                     /\ Attempts(r) \in {r.lcl.i - 1, r.lcl.i}
                     /\ r.pc = "done" =>
                            /\ r.status = 200
                            /\ Attempts(r) = n
                            /\ Len(r.lcl.created) + Len(r.lcl.failed) = n

\* C19: a request one of whose store calls returned an error is answered with an
\* error status, the per-item failures of the bulk create-user loop apart; so are
\* the spotlight soft delete and the spotlight reorder when an update they issued
\* failed.
C19_StoreErrorIsErrorStatus ==
    \A s \in Slots :
        LET r == reqs[s]
        IN (r.pc = "done" /\ r.err # "" /\ ~(r.route = CreateUserRoute /\ isBulk(r.raw)))
              => r.status >= 400

\* The id of the request names no row of the table its route works on.
RowMissing(r) ==
    CASE r.route \in {"GET /restaurants/:id", "PUT /restaurants/:id",
                      "DELETE /restaurants/:id"} -> r.id \notin DOMAIN restaurants
      [] r.route \in {"GET /stores/:id", "DELETE /stores/:id"} -> r.id \notin DOMAIN stores
      [] r.route \in {AppendRoute, RemoveRoute} -> r.id \notin DOMAIN corporate
      [] OTHER -> FALSE

\* C20: a request with a well-formed id that names no row, once past validation
\* and the role check, is answered 404 by the step that looks the row up or
\* writes it (unless the store call itself fails): GET, PUT and DELETE of a
\* restaurant, GET and DELETE of a store, append and removal of an employee.
C20_MissingRowIs404Everywhere ==
    [][\A s \in Slots :
          LET r == reqs[s]
              r2 == reqs'[s]
          IN (/\ RowMissing(r) /\ IdSchema(r.id)
              /\ r.pc \notin {"idle", "done", "auth", "role"}
              /\ r2.pc = "done" /\ r2.err # "failed")
                 => r2.status = 404
      ]_vars

\* The table a list route reads, and the ids of that table in creation order.
ListedTable(route) == IF route = "GET /restaurants" THEN restaurants ELSE stores
ListedNames(route) == IF route = "GET /restaurants" THEN RestIdNames ELSE StoreIdNames

\* The rows of the table that pass the filters of list query d.
FilteredSet(table, d) ==
    {i \in DOMAIN table :
        /\ (~d.includeInactive /\ d.status = NULL) => table[i].is_active
        /\ d.status = "active" => table[i].is_active
        /\ d.status = "inactive" => ~table[i].is_active}

\* The zero-based position of row i of set F in the order query d asks for.
PositionIn(F, names, d, i) ==
    LET at(x) == CHOOSE k \in 1..Len(names) : names[k] = x
    IN Cardinality({j \in F : IF d.order = "asc" THEN at(j) < at(i) ELSE at(j) > at(i)})

\* C21: the items of a list response are exactly the rows at positions
\* offset .. offset+limit-1 of the filtered set in the requested order, in that
\* order, and page.total is the size of the whole filtered set.
C21_ItemsAreTheWindow ==
    [][\A s \in Slots :
          LET r == reqs[s]
              r2 == reqs'[s]
              d == r.arg
              F == FilteredSet(ListedTable(r.route), d)
              W == {i \in F : /\ PositionIn(F, ListedNames(r.route), d, i) >= d.offset
                              /\ PositionIn(F, ListedNames(r.route), d, i)
                                     <= d.offset + d.limit - 1}
              items == r2.lcl.items
          IN (r.route \in ListRoutes /\ r.pc = "list" /\ r2.pc = "done" /\ r2.status = 200)
                 => /\ r2.lcl.total = Cardinality(F)
                    /\ Len(items) = Cardinality(W)
                    /\ Len(items) <= d.limit
                    /\ d.offset >= Cardinality(F) => items = <<>>
                    /\ \A k \in 1..Len(items) :
                          /\ items[k].id \in F
                          /\ PositionIn(F, ListedNames(r.route), d, items[k].id)
                                 = d.offset + k - 1
      ]_vars

\* A response holding the second of two filtered rows: limit 1 at offset 1.
C21_SecondOfTwo ==
    \E s \in Slots :
        LET r == reqs[s]
        IN /\ r.route \in ListRoutes /\ r.pc = "done" /\ r.status = 200
           /\ r.arg.limit = 1 /\ r.arg.offset = 1
           /\ r.lcl.total = 2 /\ Len(r.lcl.items) = 1

\* C22: a create by an admin that gives only name and slug adds one row and is
\* answered 201, the row having is_active true, booking_enabled true and
\* avg_duration_minutes 90; a create whose slug an existing restaurant uses is
\* answered 400 (slug already exists) and adds no row; no two restaurants ever
\* share a slug.
C22_CreateDefaultsAndUniqueSlug ==
    [][/\ \A s \in Slots :
            LET r == reqs[s]
                r2 == reqs'[s]
                used == \E i \in DOMAIN restaurants :
                            restaurants[i].slug = Trim(r.raw.slug)
            IN (r.route = "POST /restaurants" /\ r.pc = "insert" /\ r2.pc = "done"
                   /\ r2.err # "failed")
                  => IF used
                     THEN r2.status = 400 /\ r2.err = "23505" /\ restaurants' = restaurants
                     ELSE /\ r2.status = 201
                          /\ isAdminRole(r.role)
                          /\ r2.id \notin DOMAIN restaurants
                          /\ DOMAIN restaurants' = DOMAIN restaurants \cup {r2.id}
                          /\ \A i \in DOMAIN restaurants : restaurants'[i] = restaurants[i]
                          /\ restaurants'[r2.id].slug = Trim(r.raw.slug)
                          /\ DOMAIN r.raw = {"name", "slug"} =>
                                /\ restaurants'[r2.id].is_active = TRUE
                                /\ restaurants'[r2.id].booking_enabled = TRUE
                                /\ restaurants'[r2.id].avg_duration_minutes = 90
       /\ \A i, j \in DOMAIN restaurants' :
             restaurants'[i].slug = restaurants'[j].slug => i = j
      ]_vars

\* A create with only name and slug was refused because the slug is in use.
C22_SecondCreateRefused ==
    \E s \in Slots :
        LET r == reqs[s]
        IN /\ r.route = "POST /restaurants" /\ r.pc = "done"
           /\ DOMAIN r.raw = {"name", "slug"}
           /\ r.status = 400 /\ r.err = "23505"
           /\ \E i \in DOMAIN restaurants : restaurants[i].slug = r.raw.slug

\* C23: a store row is soft-deleted or hard-deleted only by a DELETE
\* /api/stores/:id whose caller carries a valid bearer credential and is an
\* admin or a partner.
C23_StoreDeleteNeedsAccess ==
    [][stores' # stores =>
          \E s \in Slots :
              /\ reqs[s].route = "DELETE /stores/:id"
              /\ reqs'[s].status = 200
              /\ Authenticated(reqs[s])
              /\ \/ isAdminRole(RegistryRole(reqs[s]))
                 \/ isPartnerRole(RegistryRole(reqs[s]))
      ]_vars

\* The steps of the owner-or-admin guard, in the order of the code.
GuardSteps == <<"token", "auth", "role", "fetch">>

\* The guard steps request r has logged, in the order it took them.
GuardLog(r) == SelectSeq(r.log, LAMBDA x : Has(GuardSteps, x))

\* C24: the owner-or-admin guard takes its steps in the order authenticate,
\* resolve role, fetch the restaurant (partner roles only), compare ownership,
\* each at most once; the step that fails answers with its status (401
\* credential, 500 failed lookup, 404 missing restaurant, 403 other owner or
\* other role) and no step of the guard or of the handler follows it.
C24_GuardStepsInOrder ==
    [][\A s \in Slots :
          LET r == reqs[s]
              r2 == reqs'[s]
              g == GuardLog(r2)
              denied == r2.pc = "done" /\ ~r2.admitted
          IN (r2.route \in WriteRoutes /\ r2 # r /\ r2.pc # "idle") =>
                /\ Len(g) <= Len(GuardSteps) /\ g = SubSeq(GuardSteps, 1, Len(g))
                /\ Has(g, "fetch") => isPartnerRole(r2.role)
                /\ r2.admitted =>
                      g = IF isAdminRole(r2.role) THEN SubSeq(GuardSteps, 1, 3)
                          ELSE GuardSteps
                /\ (denied /\ g # <<>>) =>
                      /\ Last(r2.log) = Last(g)
                      /\ r2.nresp = 1
                      /\ r2.status =
                            CASE Last(g) \in {"token", "auth"} -> 401
                              [] Last(g) = "role" ->
                                    IF r2.err = "failed" THEN 500 ELSE 403
                              [] Last(g) = "fetch" ->
                                    IF r2.err = "failed" THEN 500
                                    ELSE IF r.id \notin DOMAIN restaurants THEN 404
                                    ELSE 403
                      /\ (Last(g) = "role" /\ r2.status = 403) =>
                            ~isAdminRole(r2.role) /\ ~isPartnerRole(r2.role)
                      /\ (Last(g) = "fetch" /\ r2.status = 403) =>
                            restaurants[r.id].owner_user_id # r.caller
      ]_vars

\* A partner was refused at the ownership comparison, the last step of four.
C24_RefusedAtOwnership ==
    \E s \in Slots :
        LET r == reqs[s]
        IN /\ r.route \in WriteRoutes /\ r.pc = "done" /\ r.status = 403
           /\ GuardLog(r) = GuardSteps /\ Last(r.log) = "fetch"

\* The user_ids of the records of an employee list.
UserIdsOf(list) == {list[k].user_id : k \in 1..Len(list)}

\* C25: the employee write is unconditional, so a merge or a removal computed
\* from a list that another request has since replaced overwrites that
\* request's records (the state C25_LostUpdate); a write computed from the list
\* still stored loses nothing: it keeps every stored user_id, except the one a
\* removal names, and a merge adds those of its batch.
C25_OnlyStaleWritesLose ==
    [][\A s \in Slots :
          LET r == reqs[s]
              old == corporate[r.id].employees
              new == corporate'[r.id].employees
          IN (r.route \in {AppendRoute, RemoveRoute} /\ r.pc = "cwrite"
                 /\ reqs'[s].pc = "done" /\ reqs'[s].status = 200)
                => /\ new = r.lcl.next
                   /\ r.lcl.existing = old =>
                         UserIdsOf(new) =
                            IF r.route = AppendRoute
                            THEN UserIdsOf(old) \cup UserIdsOf(r.arg)
                            ELSE UserIdsOf(old) \ {r.arg.userId}
      ]_vars

\* Two merges answered 200, and the list lacks the employee one of them added
\* (no request of this specification removes that employee).
C25_LostUpdate ==
    \E s, o \in Slots :
        /\ s # o
        /\ reqs[s].route = AppendRoute /\ reqs[s].pc = "done" /\ reqs[s].status = 200
        /\ reqs[o].route = AppendRoute /\ reqs[o].pc = "done" /\ reqs[o].status = 200
        /\ reqs[s].id = reqs[o].id /\ reqs[s].id \in DOMAIN corporate
        /\ "ue" \in UserIdsOf(reqs[s].arg)
        /\ "ue" \notin UserIdsOf(corporate[reqs[s].id].employees)

\* C26: every guard decides on the role and the owner the store holds when the
\* guard reads them: after a role lookup the request is admitted only if the
\* registry holds an admin role for the caller at that moment, goes on to the
\* restaurant only if it holds a partner role, and is refused otherwise; after
\* the restaurant lookup it is admitted exactly if the row names the caller as
\* owner at that moment. No earlier request's role or owner is used.
C26_GuardReadsCurrentStore ==
    [][\A s \in Slots :
          LET r == reqs[s]
              r2 == reqs'[s]
              role == RegistryRole(r)
          IN (r.route \in WriteRoutes /\ r2 # r /\ r2.err # "failed") =>
                /\ r.pc = "role" =>
                      /\ r2.admitted <=> role \in AdminRoles
                      /\ r2.pc = "fetch" <=> role \in PartnerRoles
                      /\ (r2.pc = "done" /\ r2.status = 403)
                            <=> role \notin AdminRoles \cup PartnerRoles
                /\ (r.pc = "fetch" /\ r.id \in DOMAIN restaurants) =>
                      /\ r2.admitted <=> restaurants[r.id].owner_user_id = r.caller
                      /\ (r2.pc = "done" /\ r2.status = 403)
                            <=> restaurants[r.id].owner_user_id # r.caller
      ]_vars

\* The admin of the initial registry, demoted since, has just been refused.
C26_DemotedAdminRefused ==
    \E s \in Slots :
        LET r == reqs[s]
        IN /\ r.route \in WriteRoutes /\ r.hdr = <<"Bearer", "ua">>
           /\ InitUsers["ua"].role = "admin" /\ users["ua"].role = "user"
           /\ r.pc = "done" /\ r.status = 403 /\ Last(r.log) = "role"

\* The user_ids of a batch that are not in seen, each once, in batch order.
RECURSIVE NewIdsInOrder(_, _)
NewIdsInOrder(batch, seen) ==
    IF batch = <<>> THEN <<>>
    ELSE IF Head(batch).user_id \in seen THEN NewIdsInOrder(Tail(batch), seen)
    ELSE <<Head(batch).user_id>>
            \o NewIdsInOrder(Tail(batch), seen \cup {Head(batch).user_id})

\* C27: a successful merge leaves every stored record whose user_id is not in
\* the batch in the list, unchanged and in the same relative order; a record
\* whose user_id was stored keeps its position; the records of new user_ids
\* follow at the end, in batch order.
C27_MergeFrame ==
    [][\A s \in Slots :
          LET r == reqs[s]
              old == corporate[r.id].employees
              new == corporate'[r.id].employees
              inBatch(e) == e.user_id \in UserIdsOf(r.arg)
              added == NewIdsInOrder(r.arg, UserIdsOf(old))
          IN Succeeds(s, AppendRoute) =>
                /\ SelectSeq(new, LAMBDA e : ~inBatch(e))
                      = SelectSeq(old, LAMBDA e : ~inBatch(e))
                /\ Len(new) = Len(old) + Len(added)
                /\ \A k \in 1..Len(old) :
                      /\ new[k].user_id = old[k].user_id
                      /\ ~inBatch(old[k]) => new[k] = old[k]
                /\ \A k \in 1..Len(added) : new[Len(old) + k].user_id = added[k]
      ]_vars

\* A merge of the batch (ue, uu) into a list that held uu: uu first, ue after it.
C27_StoredKeepsPlace ==
    \E s \in Slots :
        LET r == reqs[s]
        IN /\ r.route = AppendRoute /\ r.pc = "done" /\ r.status = 200
           /\ Len(r.arg) = 2 /\ r.arg[1].user_id = "ue" /\ r.arg[2].user_id = "uu"
           /\ r.id \in DOMAIN corporate
           /\ Len(corporate[r.id].employees) = 2
           /\ corporate[r.id].employees[1].user_id = "uu"
           /\ corporate[r.id].employees[2].user_id = "ue"

ReorderRoute == "PUT /spotlight/reorder/list"

\* C28: every update of a reorder writes one listed item's requested
\* order_index and nothing else; when all updates succeeded and the listed ids
\* are distinct, every listed item ends with its requested order_index in
\* whatever order the updates were applied; when an id is listed twice the item
\* ends with one of the values requested for it, which one depending on the
\* order of the updates (C28_FirstOfTwoWins).
C28_ReorderIsIndependentUpdates ==
    [][\A s \in Slots :
          LET r == reqs[s]
              r2 == reqs'[s]
              order == r.arg.order
              listed(i) == {k \in 1..Len(order) : order[k].id = i}
              distinct == \A i \in DOMAIN spotlight : Cardinality(listed(i)) <= 1
          IN (r.route = ReorderRoute /\ r.pc = "sreorder" /\ r2 # r) =>
                /\ DOMAIN spotlight' = DOMAIN spotlight
                /\ \A i \in DOMAIN spotlight :
                      spotlight'[i] # spotlight[i] =>
                          \E k \in listed(i) :
                              spotlight'[i] =
                                 [spotlight[i] EXCEPT !.order_index = order[k].order_index]
                /\ (r2.pc = "done" /\ r2.err = "") =>
                      /\ r2.status = 200
                      /\ \A i \in DOMAIN spotlight : listed(i) # {} =>
                            \E k \in listed(i) :
                                spotlight'[i].order_index = order[k].order_index
                      /\ distinct =>
                            \A k \in 1..Len(order) : order[k].id \in DOMAIN spotlight =>
                                spotlight'[order[k].id].order_index = order[k].order_index
      ]_vars

\* A reorder that lists p1 twice, all updates applied, has left p1 with the
\* first of the two values.
C28_FirstOfTwoWins ==
    \E s \in Slots :
        LET r == reqs[s]
        IN /\ r.route = ReorderRoute /\ r.pc = "done" /\ r.status = 200 /\ r.err = ""
           /\ Len(r.arg.order) = 2
           /\ r.arg.order[1].id = "p1" /\ r.arg.order[2].id = "p1"
           /\ r.arg.order[1].order_index # r.arg.order[2].order_index
           /\ spotlight["p1"].order_index = r.arg.order[1].order_index

\* C29: a PUT /api/restaurants/:id whose caller has a partner role never
\* changes the owner_user_id of a restaurant; only a caller with role admin or
\* superadmin changes it.
C29_OnlyAdminChangesOwner ==
    [][\A i \in DOMAIN restaurants \cap DOMAIN restaurants' :
          restaurants'[i].owner_user_id # restaurants[i].owner_user_id =>
              \E s \in Slots :
                  /\ reqs[s].route = "PUT /restaurants/:id" /\ reqs[s].id = i
                  /\ reqs[s].pc = "update"
                  /\ reqs[s].role \in AdminRoles
      ]_vars

\* Request r has been answered 200 with mode registered.
Registered(r) ==
    /\ r.route = LoginRoute /\ r.pc = "done" /\ r.status = 200
    /\ "mode" \in DOMAIN r.lcl /\ r.lcl.mode = "registered"

=============================================================================
